---------------------------- MODULE Spec2Model ----------------------------
(***************************************************************************)
(* Model of the analysis tasks upcRhoAnalysis                              *)
(* (src/PWGUD/Tasks/upcRhoAnalysis.cxx) and myAnalysis                     *)
(* (src/PWGLF/Tasks/Strangeness/lambdaJetpolarization.cxx).  The two tasks *)
(* share nothing; myAnalysis is modelled further down, with its own units. *)
(*                                                                         *)
(* The state of upcRhoAnalysis is its configuration (the Configurables,    *)
(* fixed once the task is initialised) and its histogram registry.  The    *)
(* host                                                                    *)
(* framework calls processReco once per collision; the model has one       *)
(* action for that call.  Besides the registry the model keeps the         *)
(* arguments and the local variables of the last call (collision, tracks,  *)
(* frame), so that properties of a call are state predicates.              *)
(*                                                                         *)
(* Floating-point quantities are fixed-point integers:                     *)
(*   posZ                       cm                                         *)
(*   ZN common energies         the unit of the energy cut                 *)
(*   ZN times                   0.1 ns                                     *)
(*   tpcNSigmaPi                0.1 sigma                                  *)
(*   dcaZ, dcaXY                0.0001 cm                                  *)
(*   momenta, energies, masses  MeV                                        *)
(*   systemYCut                 100000 * tanh of the rapidity cut          *)
(* A histogram is modelled by the number of its entries; for the two       *)
(* integer-valued histograms hSelectionCounter and hRemainingTracks the    *)
(* filled bin is kept as well.                                             *)
(***************************************************************************)
EXTENDS Integers, Sequences, FiniteSets, TLC

VARIABLES
  \* Configurables, lines 39-53
  specifyGapSide, gapSide, requireTof,
  collisionsPosZMaxCut, ZNcommonEnergyCut, ZNtimeCut,
  tracksTpcNSigmaPiCut, tracksDcaMaxCut,
  systemMassMinCut, systemMassMaxCut, systemPtCut, systemYCut,
  \* HistogramRegistry registry, line 67: <<histogram, bin>> -> content
  registry,
  \* number of processReco calls made so far
  nEvents,
  \* arguments of the last processReco call
  collision, tracks,
  \* local variables of the last processReco call
  frame,
  \* the task myAnalysis: its Configurables, histograms and counters
  myAnalysis,
  \* the last call of a handler of myAnalysis: its arguments and locals
  call

config == <<specifyGapSide, gapSide, requireTof, collisionsPosZMaxCut,
            ZNcommonEnergyCut, ZNtimeCut, tracksTpcNSigmaPiCut,
            tracksDcaMaxCut, systemMassMinCut, systemMassMaxCut, systemPtCut,
            systemYCut>>

vars == <<config, registry, nEvents, collision, tracks, frame, myAnalysis, call>>

---------------------------------------------------------------------------
(* Bounds and program constants *)

\* number of processReco calls explored
MaxEvents == 1

\* number of processReco calls in a sequence of events (SpecSequence)
MaxSequence == 2

\* number of processV0 calls in a sequence of events (SpecV0)
MaxV0Events == 2

\* number of processJetTracks calls (SpecJetTracks)
MaxJetEvents == 1

\* o2::constants::physics::MassPionCharged, 139.57 MeV
MassPionCharged == 140

\* sinh(PcEtaCut) * 100000 for PcEtaCut = 0.9: |eta| > 0.9 <=> |pz| > sinh(0.9) * pt
PcEtaCutSinh == 102652

\* tanh(systemYCut) * 100000 for systemYCut = 0.9: |y| > 0.9 <=> |pz| > tanh(0.9) * E
systemYCutTanh == 71630

---------------------------------------------------------------------------
(* Arithmetic *)

Abs(x) == IF x < 0 THEN -x ELSE x

RECURSIVE IsqrtBetween(_, _, _)
IsqrtBetween(n, lo, hi) ==
  \* the r in lo..hi with r*r <= n < (r+1)*(r+1), by bisection
  IF lo >= hi THEN lo
  ELSE LET mid == (lo + hi + 1) \div 2
       IN IF mid * mid <= n THEN IsqrtBetween(n, mid, hi)
                            ELSE IsqrtBetween(n, lo, mid - 1)

\* std::sqrt at the resolution of the model
Isqrt(n) == IsqrtBetween(n, 0, 4096)

RECURSIVE SeqSum(_)
SeqSum(s) == IF s = <<>> THEN 0 ELSE Head(s) + SeqSum(Tail(s))

RECURSIVE Flatten(_)
Flatten(ss) == IF ss = <<>> THEN <<>> ELSE Head(ss) \o Flatten(Tail(ss))

Range(s) == {s[i] : i \in DOMAIN s}

---------------------------------------------------------------------------
(* Histogram registry *)

\* registry.fill(HIST(h), value): one more entry in histogram h
Fill(h) == [h |-> h, bin |-> 0, w |-> 1, val |-> <<>>]

\* registry.fill(HIST(h), bin) of an integer-valued histogram
FillBin(h, bin) == [h |-> h, bin |-> bin, w |-> 1, val |-> <<>>]

\* registry.fill(HIST(h), bin, w): weighted fill
FillWeighted(h, bin, w) == [h |-> h, bin |-> bin, w |-> w, val |-> <<>>]

hSelectionCounter == <<"QC/tracks", "hSelectionCounter">>

\* the entries a sequence of fills adds to bin k: the sum of their weights
\* (every weight is 1 or 2, line 518 being the only weighted fill)
Added(fills, k) ==
  LET hits == {i \in DOMAIN fills : <<fills[i].h, fills[i].bin>> = k}
  IN Cardinality(hits) + Cardinality({i \in hits : fills[i].w = 2})

\* the registry after the fills
ApplyFills_overwrite(reg, fills) ==
  \* mutant: a fill replaces the content of the bin
  LET touched == {<<fills[i].h, fills[i].bin>> : i \in DOMAIN fills}
  IN [k \in DOMAIN reg |-> IF k \in touched THEN Added(fills, k) ELSE reg[k]]

ApplyFills(reg, fills) ==
  LET touched == {<<fills[i].h, fills[i].bin>> : i \in DOMAIN fills}
  IN [k \in DOMAIN reg |-> IF k \in touched THEN reg[k] + Added(fills, k) ELSE reg[k]]

---------------------------------------------------------------------------
(* Cut functions, lines 348-406 *)

collisionPassesCuts_strict(c) ==
  \* mutant: the vertex bound itself is rejected
  IF Abs(c.posZ) >= collisionsPosZMaxCut THEN FALSE
  ELSE IF specifyGapSide /\ c.gapSide # gapSide THEN FALSE
  ELSE TRUE

collisionPassesCuts(c) ==
  IF Abs(c.posZ) > collisionsPosZMaxCut THEN FALSE
  ELSE IF specifyGapSide /\ c.gapSide # gapSide THEN FALSE
  ELSE TRUE

\* track.pt(): transverse momentum of a track
TrackPt(t) == Isqrt(t.px * t.px + t.py * t.py)

\* std::pow(track.pt(), 1.01) with pt in GeV, times 10^6, at the transverse
\* momenta (MeV) of the tracks of the model
Pow101 == (100 :> 97724) @@ (200 :> 196807) @@ (260 :> 256521) @@
          (300 :> 296410) @@ (321 :> 317373) @@ (360 :> 356341)

\* 0.0182 + 0.0350 / std::pow(track.pt(), 1.01), the Run 2 dynamic DCA cut
DcaXYMaxCut(t) == 182 + (350000000 \div Pow101[TrackPt(t)])

\* std::abs(eta(track.px(), track.py(), track.pz())) > PcEtaCut
EtaOutside(t) == Abs(t.pz) * 100000 > PcEtaCutSinh * TrackPt(t)

trackPassesCuts_dcaBeforeTof(t) ==
  \* mutant: the DCA stage is evaluated before the TOF stage
  IF ~t.isPVContributor THEN [ok |-> FALSE, fills |-> <<>>]
  ELSE IF ~t.hasITS \/ ~t.hasTPC
    THEN [ok |-> FALSE, fills |-> <<FillBin(hSelectionCounter, 1)>>]
  ELSE IF Abs(t.dcaZ) > tracksDcaMaxCut \/ Abs(t.dcaXY) > DcaXYMaxCut(t)
    THEN [ok |-> FALSE, fills |-> <<FillBin(hSelectionCounter, 1),
                                    FillBin(hSelectionCounter, 2)>>]
  ELSE IF requireTof /\ ~t.hasTOF
    THEN [ok |-> FALSE, fills |-> <<FillBin(hSelectionCounter, 1),
                                    FillBin(hSelectionCounter, 2),
                                    FillBin(hSelectionCounter, 3)>>]
  ELSE IF EtaOutside(t)
    THEN [ok |-> FALSE, fills |-> <<FillBin(hSelectionCounter, 1),
                                    FillBin(hSelectionCounter, 2),
                                    FillBin(hSelectionCounter, 3),
                                    FillBin(hSelectionCounter, 4)>>]
  ELSE [ok |-> TRUE, fills |-> <<FillBin(hSelectionCounter, 1),
                                 FillBin(hSelectionCounter, 2),
                                 FillBin(hSelectionCounter, 3),
                                 FillBin(hSelectionCounter, 4),
                                 FillBin(hSelectionCounter, 5)>>]

trackPassesCuts(t) ==
  \* the return value and the selection-counter fills made on the way
  IF ~t.isPVContributor THEN [ok |-> FALSE, fills |-> <<>>]
  ELSE IF ~t.hasITS \/ ~t.hasTPC
    THEN [ok |-> FALSE, fills |-> <<FillBin(hSelectionCounter, 1)>>]
  ELSE IF requireTof /\ ~t.hasTOF
    THEN [ok |-> FALSE, fills |-> <<FillBin(hSelectionCounter, 1),
                                    FillBin(hSelectionCounter, 2)>>]
  ELSE IF Abs(t.dcaZ) > tracksDcaMaxCut \/ Abs(t.dcaXY) > DcaXYMaxCut(t)
    THEN [ok |-> FALSE, fills |-> <<FillBin(hSelectionCounter, 1),
                                    FillBin(hSelectionCounter, 2),
                                    FillBin(hSelectionCounter, 3)>>]
  ELSE IF EtaOutside(t)
    THEN [ok |-> FALSE, fills |-> <<FillBin(hSelectionCounter, 1),
                                    FillBin(hSelectionCounter, 2),
                                    FillBin(hSelectionCounter, 3),
                                    FillBin(hSelectionCounter, 4)>>]
  ELSE [ok |-> TRUE, fills |-> <<FillBin(hSelectionCounter, 1),
                                 FillBin(hSelectionCounter, 2),
                                 FillBin(hSelectionCounter, 3),
                                 FillBin(hSelectionCounter, 4),
                                 FillBin(hSelectionCounter, 5)>>]

\* radius after the loop of lines 383-384
PidRadius(cutTracks) ==
  SeqSum([i \in DOMAIN cutTracks |-> cutTracks[i].tpcNSigmaPi * cutTracks[i].tpcNSigmaPi])

tracksPassPiPID_noSquare(cutTracks) ==
  \* mutant: the n-sigma values are summed without being squared
  SeqSum([i \in DOMAIN cutTracks |-> cutTracks[i].tpcNSigmaPi])
    < tracksTpcNSigmaPiCut * tracksTpcNSigmaPiCut

tracksPassPiPID_perTrack(cutTracks) ==
  \* mutant: each track is cut on its own
  \A i \in DOMAIN cutTracks :
    cutTracks[i].tpcNSigmaPi * cutTracks[i].tpcNSigmaPi
      < tracksTpcNSigmaPiCut * tracksTpcNSigmaPiCut

tracksPassPiPID(cutTracks) ==
  PidRadius(cutTracks) < tracksTpcNSigmaPiCut * tracksTpcNSigmaPiCut

tracksTotalCharge_firstTwo(cutTracks) ==
  \* mutant: only the first two tracks are summed
  SeqSum([i \in DOMAIN cutTracks \cap {1, 2} |-> cutTracks[i].sign])

tracksTotalCharge(cutTracks) ==
  SeqSum([i \in DOMAIN cutTracks |-> cutTracks[i].sign])

---------------------------------------------------------------------------
(* Four-vectors: ROOT::Math::PxPyPzMVector, kept as px, py, pz and the     *)
(* mass squared M2 (negative for a space-like vector)                      *)

\* ROOT::Math::PxPyPzMVector(track.px(), track.py(), track.pz(), MassPionCharged)
PionVector(t) == [px |-> t.px, py |-> t.py, pz |-> t.pz,
                  M2 |-> MassPionCharged * MassPionCharged]

\* the default-constructed vector
ZeroVector == [px |-> 0, py |-> 0, pz |-> 0, M2 |-> 0]

P2(v) == v.px * v.px + v.py * v.py + v.pz * v.pz
Pt2(v) == v.px * v.px + v.py * v.py

\* E(): sqrt(p^2 + M^2), 0 when that is negative
Energy(v) == IF P2(v) + v.M2 > 0 THEN Isqrt(P2(v) + v.M2) ELSE 0

VectorAdd_scalarMass(a, b) ==
  \* mutant: the mass of the sum is the sum of the masses
  LET m == Isqrt(a.M2) + Isqrt(b.M2)
  IN [px |-> a.px + b.px, py |-> a.py + b.py, pz |-> a.pz + b.pz, M2 |-> m * m]

\* operator+=: the components and the energies add, the mass is recomputed
VectorAdd(a, b) ==
  LET px == a.px + b.px
      py == a.py + b.py
      pz == a.pz + b.pz
      e  == Energy(a) + Energy(b)
  IN [px |-> px, py |-> py, pz |-> pz,
      M2 |-> e * e - (px * px + py * py + pz * pz)]

RECURSIVE SumFrom(_, _)
SumFrom(system, vecs) ==
  IF vecs = <<>> THEN system ELSE SumFrom(VectorAdd(system, Head(vecs)), Tail(vecs))

reconstructSystem_assigns(cutTracks4Vecs) ==
  \* mutant: system = track4Vec in the loop, the last vector wins
  IF cutTracks4Vecs = <<>> THEN ZeroVector ELSE cutTracks4Vecs[Len(cutTracks4Vecs)]

reconstructSystem(cutTracks4Vecs) == SumFrom(ZeroVector, cutTracks4Vecs)

\* std::abs(system.Rapidity()) > systemYCut
RapidityOutside(v) == Abs(v.pz) * 100000 > systemYCut * Energy(v)

systemPassCuts_strict(system) ==
  \* mutant: a system on the value of a cut is rejected
  IF \/ system.M2 <= systemMassMinCut * systemMassMinCut
     \/ system.M2 >= systemMassMaxCut * systemMassMaxCut
    THEN FALSE
  ELSE IF Pt2(system) >= systemPtCut * systemPtCut THEN FALSE
  ELSE IF Abs(system.pz) * 100000 >= systemYCut * Energy(system) THEN FALSE
  ELSE TRUE

systemPassCuts(system) ==
  \* M() < min or M() > max, Pt() > cut and |Rapidity()| > cut, on the squares
  IF \/ system.M2 < systemMassMinCut * systemMassMinCut
     \/ system.M2 > systemMassMaxCut * systemMassMaxCut
    THEN FALSE
  ELSE IF Pt2(system) > systemPtCut * systemPtCut THEN FALSE
  ELSE IF RapidityOutside(system) THEN FALSE
  ELSE TRUE

---------------------------------------------------------------------------
(* Decay angles, lines 416-453.  Angles are counted in half-steps of 2.5   *)
(* degrees: a direction on an axis or a diagonal has its exact, even,     *)
(* value; any other direction has the odd value of the 5-degree sector it *)
(* lies in.                                                                *)

\* o2::constants::math::PI and TwoPI
PI == 72
TwoPI == 144

\* 10000 * tan of 5, 10, ..., 40 degrees
TanTable == <<875, 1763, 2679, 3640, 4663, 5774, 7002, 8391>>

\* angle of the direction (x, y) with x >= y >= 0 and x > 0
OctantAngle(x, y) ==
  IF y = 0 THEN 0
  ELSE IF y = x THEN 18
  ELSE 2 * Cardinality({k \in DOMAIN TanTable : TanTable[k] * x <= 10000 * y}) + 1

\* angle of the direction (x, y) with x >= 0, y >= 0, not both 0
QuadrantAngle(x, y) ==
  IF y <= x THEN OctantAngle(x, y) ELSE 36 - OctantAngle(y, x)

\* Phi(): std::atan2(py, px), in (-PI, PI]
Phi(v) ==
  IF v.px = 0 /\ v.py = 0 THEN 0
  ELSE IF v.py >= 0
    THEN IF v.px >= 0 THEN QuadrantAngle(v.px, v.py)
                      ELSE PI - QuadrantAngle(-v.px, v.py)
    ELSE IF v.px >= 0 THEN -QuadrantAngle(v.px, -v.py)
                      ELSE -(PI - QuadrantAngle(-v.px, -v.py))

\* operator-: the components and the energies subtract, the mass is recomputed
VectorSub(a, b) ==
  LET px == a.px - b.px
      py == a.py - b.py
      pz == a.pz - b.pz
      e  == Energy(a) - Energy(b)
  IN [px |-> px, py |-> py, pz |-> pz,
      M2 |-> e * e - (px * px + py * py + pz * pz)]

\* lines 420-423: the wrap of the difference of the two angles
WrapDeltaPhi(dPhi) ==
  IF dPhi > PI THEN dPhi - TwoPI
  ELSE IF dPhi < -PI THEN dPhi + TwoPI
  ELSE dPhi

\* lines 416-424
deltaPhi(p1, p2) == WrapDeltaPhi(Phi(p1) - Phi(p2))

\* the outcomes of std::shuffle on indices = {0, 1}, line 430
ShuffleOutcomes == {<<0, 1>>, <<1, 0>>}

getPhiRandom_swappedArguments(cutTracks4Vecs, indices) ==
  \* mutant: deltaPhi is called with the difference first and the sum second
  LET pOne   == cutTracks4Vecs[indices[1] + 1]
      pTwo   == cutTracks4Vecs[indices[2] + 1]
  IN deltaPhi(VectorSub(pOne, pTwo), VectorAdd(pOne, pTwo))

\* lines 426-437, for the outcome indices of the shuffle
getPhiRandom(cutTracks4Vecs, indices) ==
  LET pOne   == cutTracks4Vecs[indices[1] + 1]
      pTwo   == cutTracks4Vecs[indices[2] + 1]
      pPlus  == VectorAdd(pOne, pTwo)
      pMinus == VectorSub(pOne, pTwo)
  IN deltaPhi(pPlus, pMinus)

getPhiCharge_firstIsOne(cutTracks, cutTracks4Vecs) ==
  \* mutant: the first track is pOne whatever its charge
  deltaPhi(VectorAdd(cutTracks4Vecs[1], cutTracks4Vecs[2]),
           VectorSub(cutTracks4Vecs[1], cutTracks4Vecs[2]))

\* lines 439-453
getPhiCharge(cutTracks, cutTracks4Vecs) ==
  LET pOne   == IF cutTracks[1].sign > 0 THEN cutTracks4Vecs[1] ELSE cutTracks4Vecs[2]
      pTwo   == IF cutTracks[1].sign > 0 THEN cutTracks4Vecs[2] ELSE cutTracks4Vecs[1]
      pPlus  == VectorAdd(pOne, pTwo)
      pMinus == VectorSub(pOne, pTwo)
  IN deltaPhi(pPlus, pMinus)

---------------------------------------------------------------------------
(* processReco, lines 455-800 *)

CollisionQCFills_countsTrack ==
  \* mutant: the call counts a track before the collision cuts
  << Fill(<<"QC/collisions", "hPosXY">>),
     Fill(<<"QC/collisions", "hPosZ">>),
     FillBin(hSelectionCounter, 0) >>

\* lines 458-468
CollisionQCFills ==
  << Fill(<<"QC/collisions", "hPosXY">>),
     Fill(<<"QC/collisions", "hPosZ">>),
     Fill(<<"QC/collisions", "hZdcCommonEnergy">>),
     Fill(<<"QC/collisions", "hZdcTime">>),
     Fill(<<"QC/collisions", "hZnaTimeVsCommonEnergy">>),
     Fill(<<"QC/collisions", "hZncTimeVsCommonEnergy">>),
     Fill(<<"QC/collisions", "hNumContrib">>),
     Fill(<<"QC/collisions", "hZnaTimeVsPosZ">>),
     Fill(<<"QC/collisions", "hZncTimeVsPosZ">>),
     Fill(<<"QC/collisions", "hPosZVsZnTimeAdd">>),
     Fill(<<"QC/collisions", "hPosZVsZnTimeSub">>) >>

EventTagging_XnOnIgnoresC(c) ==
  \* mutant: the Xn0n tag does not look at the C side
  [ OnOn |-> c.energyCommonZNA < ZNcommonEnergyCut /\ c.energyCommonZNC < ZNcommonEnergyCut,
    XnXn |-> /\ c.energyCommonZNA > ZNcommonEnergyCut /\ Abs(c.timeZNA) < ZNtimeCut
             /\ c.energyCommonZNC > ZNcommonEnergyCut /\ Abs(c.timeZNC) < ZNtimeCut,
    XnOn |-> c.energyCommonZNA > ZNcommonEnergyCut /\ Abs(c.timeZNA) < ZNtimeCut,
    OnXn |-> /\ c.energyCommonZNA < ZNcommonEnergyCut
             /\ c.energyCommonZNC > ZNcommonEnergyCut /\ Abs(c.timeZNC) < ZNtimeCut ]

EventTagging_noTimeWindow(c) ==
  \* mutant: the time window is not applied to the A side of Xn0n
  [ OnOn |-> c.energyCommonZNA < ZNcommonEnergyCut /\ c.energyCommonZNC < ZNcommonEnergyCut,
    XnXn |-> /\ c.energyCommonZNA > ZNcommonEnergyCut /\ Abs(c.timeZNA) < ZNtimeCut
             /\ c.energyCommonZNC > ZNcommonEnergyCut /\ Abs(c.timeZNC) < ZNtimeCut,
    XnOn |-> c.energyCommonZNA > ZNcommonEnergyCut /\ c.energyCommonZNC < ZNcommonEnergyCut,
    OnXn |-> /\ c.energyCommonZNA < ZNcommonEnergyCut
             /\ c.energyCommonZNC > ZNcommonEnergyCut /\ Abs(c.timeZNC) < ZNtimeCut ]

EventTagging_inclusiveEnergy(c) ==
  \* mutant: an energy equal to the cut counts as below it
  [ OnOn |-> c.energyCommonZNA <= ZNcommonEnergyCut /\ c.energyCommonZNC <= ZNcommonEnergyCut,
    XnXn |-> /\ c.energyCommonZNA > ZNcommonEnergyCut /\ Abs(c.timeZNA) < ZNtimeCut
             /\ c.energyCommonZNC > ZNcommonEnergyCut /\ Abs(c.timeZNC) < ZNtimeCut,
    XnOn |-> /\ c.energyCommonZNA > ZNcommonEnergyCut /\ Abs(c.timeZNA) < ZNtimeCut
             /\ c.energyCommonZNC < ZNcommonEnergyCut,
    OnXn |-> /\ c.energyCommonZNA < ZNcommonEnergyCut
             /\ c.energyCommonZNC > ZNcommonEnergyCut /\ Abs(c.timeZNC) < ZNtimeCut ]

\* lines 473-483: the four flags after the four if statements
EventTagging(c) ==
  [ OnOn |-> c.energyCommonZNA < ZNcommonEnergyCut /\ c.energyCommonZNC < ZNcommonEnergyCut,
    XnXn |-> /\ c.energyCommonZNA > ZNcommonEnergyCut /\ Abs(c.timeZNA) < ZNtimeCut
             /\ c.energyCommonZNC > ZNcommonEnergyCut /\ Abs(c.timeZNC) < ZNtimeCut,
    XnOn |-> /\ c.energyCommonZNA > ZNcommonEnergyCut /\ Abs(c.timeZNA) < ZNtimeCut
             /\ c.energyCommonZNC < ZNcommonEnergyCut,
    OnXn |-> /\ c.energyCommonZNA < ZNcommonEnergyCut
             /\ c.energyCommonZNC > ZNcommonEnergyCut /\ Abs(c.timeZNC) < ZNtimeCut ]

\* lines 490-499: the fills made for every track before it is cut
TrackRawFills ==
  << Fill(<<"QC/tracks/raw", "hTpcNSigmaPi">>),
     Fill(<<"QC/tracks/raw", "hTofNSigmaPi">>),
     Fill(<<"QC/tracks/raw", "hTpcNSigmaEl">>),
     Fill(<<"QC/tracks/raw", "hDcaXYZ">>),
     Fill(<<"QC/tracks/raw", "hItsNCls">>),
     Fill(<<"QC/tracks/raw", "hItsChi2NCl">>),
     Fill(<<"QC/tracks/raw", "hTpcChi2NCl">>),
     Fill(<<"QC/tracks/raw", "hTpcNClsFindable">>),
     Fill(<<"QC/tracks/raw", "hTpcNClsCrossedRows">>),
     FillBin(hSelectionCounter, 0) >>

\* lines 506-507: the fills made for a track that passed the cuts
TrackCutFills ==
  << Fill(<<"QC/tracks/cut", "hTpcSignalVsPt">>),
     Fill(<<"QC/tracks/cut", "hDcaXYZ">>) >>

\* lines 489-508: one iteration of the track loop, r being what
\* trackPassesCuts returned and filled
TrackStepOf(r) ==
  [ ok    |-> r.ok,
    bins  |-> [i \in DOMAIN r.fills |-> r.fills[i].bin],
    fills |-> TrackRawFills \o r.fills \o (IF r.ok THEN TrackCutFills ELSE <<>>) ]

TrackStep(t) == TrackStepOf(trackPassesCuts(t))

\* the positions of the tracks that passed the cuts, in the order of the table
KeptTracks(steps) == SelectSeq([i \in DOMAIN steps |-> i], LAMBDA i : steps[i].ok)

\* lines 488-509: the loop over the tracks of the collision, steps being its
\* iterations and kept the positions of the tracks pushed to cutTracks
TrackLoopOf(trks, steps, kept) ==
  [ trackLog  |-> [i \in DOMAIN trks |-> [ok |-> steps[i].ok, bins |-> steps[i].bins]],
    cutTracks |-> [j \in DOMAIN kept |-> trks[kept[j]]],
    fills     |-> Flatten([i \in DOMAIN trks |-> steps[i].fills]) ]

TrackLoopSteps(trks, steps) == TrackLoopOf(trks, steps, KeptTracks(steps))

TrackLoop(trks) == TrackLoopSteps(trks, [i \in DOMAIN trks |-> TrackStep(trks[i])])

\* the twelve histograms of a directory under system/2pi/cut, in fill order
SystemCutHists ==
  << "hM", "hPt", "hPt2", "hPtVsM", "hY", "hPhiRandom", "hPhiCharge",
     "hPhiRandomVsM", "hPhiChargeVsM", "hPyVsPxRandom", "hPyVsPxCharge",
     "hMInPtQuantileBins" >>

\* one block of twelve fills, e.g. lines 590-601 for ("0n0n", "unlike-sign")
SystemCutFills(sel, cls) ==
  [i \in DOMAIN SystemCutHists |-> Fill(<<"system/2pi/cut", sel, cls, SystemCutHists[i]>>)]

\* the three fills of a pions directory, e.g. lines 534-536
PionFills(sel, sgn) ==
  << Fill(<<"pions", sel, sgn, "hPt">>),
     Fill(<<"pions", sel, sgn, "hEta">>),
     Fill(<<"pions", sel, sgn, "hPhi">>) >>

\* the four fills of a raw system directory, e.g. lines 537-540
SystemRawFills(cls) ==
  << Fill(<<"system/2pi/raw", cls, "hM">>),
     Fill(<<"system/2pi/raw", cls, "hPt">>),
     Fill(<<"system/2pi/raw", cls, "hPtVsM">>),
     Fill(<<"system/2pi/raw", cls, "hY">>) >>

\* lines 532-565: switch (totalCharge) before the system cuts
RawSwitch(totalCharge) ==
  CASE totalCharge = 0  -> PionFills("no-selection", "unlike-sign")
                             \o SystemRawFills("unlike-sign")
    [] totalCharge = 2  -> PionFills("no-selection", "like-sign")
                             \o SystemRawFills("like-sign/positive")
    [] totalCharge = -2 -> PionFills("no-selection", "like-sign")
                             \o SystemRawFills("like-sign/negative")
    [] OTHER -> <<>>

\* lines 589-641: the tag chain of case 0
UnlikeSignTagChain(f) ==
  IF f.OnOn THEN SystemCutFills("0n0n", "unlike-sign")
  ELSE IF f.XnOn THEN SystemCutFills("Xn0n", "unlike-sign")
  ELSE IF f.OnXn THEN SystemCutFills("0nXn", "unlike-sign")
  ELSE IF f.XnXn THEN SystemCutFills("XnXn", "unlike-sign")
  ELSE <<>>

LikeSignPositiveTagChain_negativeDir(f) ==
  \* mutant: the tagged fills of case 2 go to the like-sign/negative directories
  IF f.OnOn THEN SystemCutFills("0n0n", "like-sign/negative")
  ELSE IF f.XnOn THEN SystemCutFills("Xn0n", "like-sign/negative")
  ELSE IF f.OnXn THEN SystemCutFills("0nXn", "like-sign/negative")
  ELSE IF f.XnXn THEN SystemCutFills("XnXn", "like-sign/negative")
  ELSE <<>>

\* lines 660-712: the tag chain of case 2
LikeSignPositiveTagChain(f) ==
  IF f.OnOn THEN SystemCutFills("0n0n", "like-sign/positive")
  ELSE IF f.XnOn THEN SystemCutFills("Xn0n", "like-sign/positive")
  ELSE IF f.OnXn THEN SystemCutFills("0nXn", "like-sign/positive")
  ELSE IF f.XnXn THEN SystemCutFills("XnXn", "like-sign/positive")
  ELSE <<>>

LikeSignNegativeTagChain_swapped(f) ==
  \* mutant: the Xn0n and 0nXn blocks of the chain are exchanged
  IF f.OnOn THEN SystemCutFills("0n0n", "like-sign/negative")
  ELSE IF f.XnOn THEN SystemCutFills("0nXn", "like-sign/negative")
  ELSE IF f.OnXn THEN SystemCutFills("Xn0n", "like-sign/negative")
  ELSE IF f.XnXn THEN SystemCutFills("XnXn", "like-sign/negative")
  ELSE <<>>

LikeSignNegativeTagChain_catchAll(f) ==
  \* mutant: the chain ends in an else that files the event under XnXn
  IF f.OnOn THEN SystemCutFills("0n0n", "like-sign/negative")
  ELSE IF f.XnOn THEN SystemCutFills("Xn0n", "like-sign/negative")
  ELSE IF f.OnXn THEN SystemCutFills("0nXn", "like-sign/negative")
  ELSE SystemCutFills("XnXn", "like-sign/negative")

\* lines 731-783: the tag chain of case -2
LikeSignNegativeTagChain(f) ==
  IF f.OnOn THEN SystemCutFills("0n0n", "like-sign/negative")
  ELSE IF f.XnOn THEN SystemCutFills("Xn0n", "like-sign/negative")
  ELSE IF f.OnXn THEN SystemCutFills("0nXn", "like-sign/negative")
  ELSE IF f.XnXn THEN SystemCutFills("XnXn", "like-sign/negative")
  ELSE <<>>

CutSwitch_taggedOnly(totalCharge, f) ==
  \* mutant: an event without a tag fills nothing after the system cuts
  IF ~(f.OnOn \/ f.XnOn \/ f.OnXn \/ f.XnXn) THEN <<>>
  ELSE CASE totalCharge = 0  -> PionFills("selected", "unlike-sign")
                                  \o SystemCutFills("no-selection", "unlike-sign")
                                  \o UnlikeSignTagChain(f)
         [] totalCharge = 2  -> PionFills("selected", "like-sign")
                                  \o SystemCutFills("no-selection", "like-sign/positive")
                                  \o LikeSignPositiveTagChain(f)
         [] totalCharge = -2 -> PionFills("selected", "like-sign")
                                  \o SystemCutFills("no-selection", "like-sign/negative")
                                  \o LikeSignNegativeTagChain(f)
         [] OTHER -> <<>>

\* lines 572-788: switch (totalCharge) after the system cuts
CutSwitch(totalCharge, f) ==
  CASE totalCharge = 0  -> PionFills("selected", "unlike-sign")
                             \o SystemCutFills("no-selection", "unlike-sign")
                             \o UnlikeSignTagChain(f)
    [] totalCharge = 2  -> PionFills("selected", "like-sign")
                             \o SystemCutFills("no-selection", "like-sign/positive")
                             \o LikeSignPositiveTagChain(f)
    [] totalCharge = -2 -> PionFills("selected", "like-sign")
                             \o SystemCutFills("no-selection", "like-sign/negative")
                             \o LikeSignNegativeTagChain(f)
    [] OTHER -> <<>>

\* lines 790-793 and 795-798
MultiPionFills(dir) ==
  << Fill(<<dir, "hM">>), Fill(<<dir, "hPt">>),
     Fill(<<dir, "hPtVsM">>), Fill(<<dir, "hY">>) >>

\* M(): the square root of the mass squared, negative for a space-like vector
Mass(v) == IF v.M2 >= 0 THEN Isqrt(v.M2) ELSE -Isqrt(-v.M2)

\* Pt()
Pt(v) == Isqrt(Pt2(v))

\* Rapidity(), as 1000 * tanh(y) = 1000 * pz / E
Rapidity(v) == IF Energy(v) = 0 THEN 0 ELSE (1000 * v.pz) \div Energy(v)

\* Eta(), as 1000 * sinh(eta) = 1000 * pz / pt
Eta(v) == IF Pt(v) = 0 THEN 0 ELSE (1000 * v.pz) \div Pt(v)

\* lines 523-526 and 529-530: the values the system histograms are filled with
Observables(system, phiRandom, phiCharge) ==
  [ mass |-> Mass(system), pT |-> Pt(system), pTsquare |-> Pt(system) * Pt(system),
    rapidity |-> Rapidity(system), phiRandom |-> phiRandom, phiCharge |-> phiCharge ]

SystemValue_chargeUsesRandom(leaf, obs) ==
  \* mutant: the charge-based histograms are filled with phiRandom
  CASE leaf = "hM" -> <<obs.mass>>
    [] leaf = "hPt" -> <<obs.pT>>
    [] leaf = "hPt2" -> <<obs.pTsquare>>
    [] leaf \in {"hPtVsM", "hMInPtQuantileBins"} -> <<obs.mass, obs.pT>>
    [] leaf = "hY" -> <<obs.rapidity>>
    [] leaf \in {"hPhiRandom", "hPhiCharge"} -> <<obs.phiRandom>>
    [] leaf \in {"hPhiRandomVsM", "hPhiChargeVsM"} -> <<obs.mass, obs.phiRandom>>
    [] leaf \in {"hPyVsPxRandom", "hPyVsPxCharge"} -> <<obs.pT, obs.phiRandom>>

\* the value a histogram of a system directory is filled with, e.g. lines
\* 577-588; pT * cos(phi), pT * sin(phi) is kept as the pair pT, phi
SystemValue(leaf, obs) ==
  CASE leaf = "hM" -> <<obs.mass>>
    [] leaf = "hPt" -> <<obs.pT>>
    [] leaf = "hPt2" -> <<obs.pTsquare>>
    [] leaf \in {"hPtVsM", "hMInPtQuantileBins"} -> <<obs.mass, obs.pT>>
    [] leaf = "hY" -> <<obs.rapidity>>
    [] leaf = "hPhiRandom" -> <<obs.phiRandom>>
    [] leaf = "hPhiCharge" -> <<obs.phiCharge>>
    [] leaf = "hPhiRandomVsM" -> <<obs.mass, obs.phiRandom>>
    [] leaf = "hPhiChargeVsM" -> <<obs.mass, obs.phiCharge>>
    [] leaf = "hPyVsPxRandom" -> <<obs.pT, obs.phiRandom>>
    [] leaf = "hPyVsPxCharge" -> <<obs.pT, obs.phiCharge>>

\* the values a histogram of a pions directory is filled with, e.g. lines 534-536
PionValue(leaf, vecs) ==
  CASE leaf = "hPt"  -> <<Pt(vecs[1]), Pt(vecs[2])>>
    [] leaf = "hEta" -> <<Eta(vecs[1]), Eta(vecs[2])>>
    [] leaf = "hPhi" -> <<Phi(vecs[1]) + PI, Phi(vecs[2]) + PI>>

\* the fills of a switch or of a multi-pion block, with their values
WithValues(fills, obs, vecs) ==
  [i \in DOMAIN fills |->
     LET h == fills[i].h
     IN [fills[i] EXCEPT !.val = IF h[1] = "pions" THEN PionValue(h[Len(h)], vecs)
                                 ELSE SystemValue(h[Len(h)], obs)]]

\* the local variables before the first statement of processReco; ret names
\* the statement at which the call returned
NoFrame ==
  [ ret |-> "none", passed |-> FALSE,
    OnOn |-> FALSE, XnXn |-> FALSE, XnOn |-> FALSE, OnXn |-> FALSE,
    trackLog |-> <<>>, cutTracks |-> <<>>, trackCounter |-> 0,
    pid |-> FALSE, system |-> ZeroVector, totalCharge |-> 0, nTracks |-> 0,
    indices |-> <<>>, phiRandom |-> 0, phiCharge |-> 0,
    systemPass |-> FALSE, fills |-> <<>> ]

\* lines 567-788: the system cuts and the switch behind them, for a pair
\* with the observables obs
TwoPionCuts(tag, f3, fills3, cutTracks4Vecs, system, totalCharge, obs) ==
  IF ~systemPassCuts(system)
    THEN [f3 EXCEPT !.ret = "system cuts", !.fills = fills3]
    ELSE [f3 EXCEPT !.ret = "end", !.systemPass = TRUE,
            !.fills = fills3 \o WithValues(CutSwitch(totalCharge, tag), obs, cutTracks4Vecs)]

\* lines 531-565: the switch before the system cuts
TwoPionRaw(tag, f3, fills2, cutTracks4Vecs, system, totalCharge, obs) ==
  TwoPionCuts(tag, f3, fills2 \o WithValues(RawSwitch(totalCharge), obs, cutTracks4Vecs),
              cutTracks4Vecs, system, totalCharge, obs)

\* lines 528-788: the branch of two selected tracks, with the two angles
TwoPion(tag, f2, fills2, cutTracks4Vecs, system, totalCharge, indices, phiRandom, phiCharge) ==
  TwoPionRaw(tag,
             [f2 EXCEPT !.indices = indices, !.phiRandom = phiRandom, !.phiCharge = phiCharge],
             fills2, cutTracks4Vecs, system, totalCharge,
             Observables(system, phiRandom, phiCharge))

\* lines 789-799: the branches of four and six selected tracks
MultiPion(f2, fills2, cutTracks4Vecs, system, totalCharge, nTracks) ==
  IF nTracks = 4 /\ totalCharge = 0
    THEN [f2 EXCEPT !.ret = "end",
            !.fills = fills2 \o WithValues(MultiPionFills("system/4pi"),
                                           Observables(system, 0, 0), cutTracks4Vecs)]
  ELSE IF nTracks = 6 /\ totalCharge = 0
    THEN [f2 EXCEPT !.ret = "end",
            !.fills = fills2 \o WithValues(MultiPionFills("system/6pi"),
                                           Observables(system, 0, 0), cutTracks4Vecs)]
  ELSE [f2 EXCEPT !.ret = "end", !.fills = fills2]

\* lines 528-799: the branches on the number of selected tracks
SystemBranches(tag, f2, fills2, cutTracks, cutTracks4Vecs, system, totalCharge, nTracks, indices) ==
  IF nTracks = 2
    THEN TwoPion(tag, f2, fills2, cutTracks4Vecs, system, totalCharge, indices,
                 getPhiRandom(cutTracks4Vecs, indices),
                 getPhiCharge(cutTracks, cutTracks4Vecs))
    ELSE MultiPion(f2, fills2, cutTracks4Vecs, system, totalCharge, nTracks)

\* lines 518-526: the system, its charge and the number of selected tracks
SystemOf(tag, f1, fills2, cutTracks, cutTracks4Vecs, system, totalCharge, nTracks, indices) ==
  SystemBranches(tag,
                 [f1 EXCEPT !.pid = TRUE, !.system = system,
                            !.totalCharge = totalCharge, !.nTracks = nTracks],
                 fills2, cutTracks, cutTracks4Vecs, system, totalCharge, nTracks, indices)

\* lines 516-522: the PID of the selected tracks
PidGate(tag, f1, fills1, cutTracks, cutTracks4Vecs, indices) ==
  IF ~tracksPassPiPID(cutTracks)
    THEN [f1 EXCEPT !.ret = "PID", !.fills = fills1]
    ELSE SystemOf(tag, f1, fills1 \o << FillWeighted(hSelectionCounter, 6, 2) >>,
                  cutTracks, cutTracks4Vecs,
                  reconstructSystem(cutTracks4Vecs), tracksTotalCharge(cutTracks),
                  Len(cutTracks), indices)

\* lines 510-515: the histograms of the selected tracks
SelectedTracks(tag, loop, cutTracks, trackCounter, indices) ==
  PidGate(tag,
          [NoFrame EXCEPT !.passed = TRUE,
             !.OnOn = tag.OnOn, !.XnXn = tag.XnXn, !.XnOn = tag.XnOn, !.OnXn = tag.OnXn,
             !.trackLog = loop.trackLog, !.cutTracks = cutTracks,
             !.trackCounter = trackCounter],
          CollisionQCFills \o loop.fills
            \o << FillBin(<<"QC/tracks/cut", "hRemainingTracks">>, trackCounter) >>
            \o (IF trackCounter = 2
                  THEN << Fill(<<"QC/tracks/cut", "hTpcNSigmaPi2D">>),
                          Fill(<<"QC/tracks/cut", "hTpcNSigmaEl2D">>) >>
                  ELSE <<>>),
          cutTracks, [i \in DOMAIN cutTracks |-> PionVector(cutTracks[i])], indices)

\* lines 473-509: the tags of the collision and the loop over its tracks
TaggedAndLooped(tag, loop, indices) ==
  SelectedTracks(tag, loop, loop.cutTracks, Len(loop.cutTracks), indices)

\* lines 455-800: the local variables and the fills of one call in which the
\* shuffle of getPhiRandom, if it is reached, comes out as indices
ProcessRecoFrame(c, trks, indices) ==
  IF ~collisionPassesCuts(c)
    THEN [NoFrame EXCEPT !.ret = "collision cuts", !.fills = CollisionQCFills]
    ELSE TaggedAndLooped(EventTagging(c), TrackLoop(trks), indices)

---------------------------------------------------------------------------
(* init, lines 69-346: the histograms booked *)

SelectionTags == {"no-selection", "0n0n", "Xn0n", "0nXn", "XnXn"}
ChargeClasses == {"unlike-sign", "like-sign/positive", "like-sign/negative"}

Histograms ==
  { <<"QC/collisions", h>> :
      h \in { "hPosXY", "hPosZ", "hNumContrib", "hZdcCommonEnergy", "hZdcTime",
              "hZnaTimeVsCommonEnergy", "hZncTimeVsCommonEnergy", "hZnaTimeVsPosZ",
              "hZncTimeVsPosZ", "hPosZVsZnTimeAdd", "hPosZVsZnTimeSub" } }
  \cup { <<"QC/tracks/raw", h>> :
      h \in { "hTpcNSigmaPi", "hTofNSigmaPi", "hTpcNSigmaEl", "hDcaXYZ", "hItsNCls",
              "hItsChi2NCl", "hTpcChi2NCl", "hTpcNClsFindable", "hTpcNClsCrossedRows" } }
  \cup { <<"QC/tracks/cut", h>> :
      h \in { "hTpcNSigmaPi2D", "hTpcNSigmaEl2D", "hTpcSignalVsPt",
              "hRemainingTracks", "hDcaXYZ" } }
  \cup { hSelectionCounter }
  \cup { <<"pions", sel, sgn, h>> :
      sel \in {"no-selection", "selected"}, sgn \in {"unlike-sign", "like-sign"},
      h \in {"hPt", "hEta", "hPhi"} }
  \cup { <<"system/2pi/raw", cls, h>> :
      cls \in ChargeClasses, h \in {"hM", "hPt", "hPtVsM", "hY"} }
  \cup { <<"system/2pi/cut", sel, cls, h>> :
      sel \in SelectionTags, cls \in ChargeClasses, h \in Range(SystemCutHists) }
  \cup { <<dir, h>> :
      dir \in {"system/4pi", "system/6pi"}, h \in {"hM", "hPt", "hPtVsM", "hY"} }

\* the bins of the registry: those of the selection counter (7 labels, line
\* 101) and of hRemainingTracks (21 bins, line 98), one per other histogram
RegistryBins ==
  { <<h, 0>> : h \in Histograms }
    \cup { <<hSelectionCounter, b>> : b \in 0..6 }
    \cup { <<<<"QC/tracks/cut", "hRemainingTracks">>, b>> : b \in 0..20 }

---------------------------------------------------------------------------
(* Configurations and events explored *)

\* the default values of the Configurables, lines 39-53
DefaultConfig ==
  [ specifyGapSide |-> TRUE, gapSide |-> 2, requireTof |-> FALSE,
    collisionsPosZMaxCut |-> 10, ZNcommonEnergyCut |-> 0, ZNtimeCut |-> 20,
    tracksTpcNSigmaPiCut |-> 30, tracksDcaMaxCut |-> 10000,
    systemMassMinCut |-> 500, systemMassMaxCut |-> 1200, systemPtCut |-> 100,
    systemYCut |-> systemYCutTanh ]

\* momenta (px, py, pz) in MeV
MomA == <<360, 0, 0>>
MomB == <<-320, 30, 0>>
MomC == <<-200, 0, 0>>
MomD == <<100, 0, 300>>
MomE == <<-300, 0, 0>>
MomF == <<300, 0, 0>>
MomG == <<200, 0, 150>>
MomH == <<-200, 0, -150>>
MomI == <<0, 300, 0>>
MomJ == <<0, -300, 0>>
\* the transverse momentum of MomA with another longitudinal momentum
MomK == <<360, 0, 100>>
\* with MomA a pair of energy 800 and longitudinal momentum 150
MomL == <<-360, 0, 150>>
\* a pair of mass 0.77 GeV, pT 0.05 GeV and rapidity 0.1
MomRhoPlus  == <<360, 0, 158>>
MomRhoMinus == <<-320, 30, -81>>

\* a track that passes every track cut
Pion(p, sign, nSigma) ==
  [ isPVContributor |-> TRUE, hasITS |-> TRUE, hasTPC |-> TRUE, hasTOF |-> TRUE,
    dcaZ |-> 0, dcaXY |-> 0, px |-> p[1], py |-> p[2], pz |-> p[3],
    tpcNSigmaPi |-> nSigma, sign |-> sign ]

Collision(z, g, eA, tA, eC, tC) ==
  [ posZ |-> z, gapSide |-> g, energyCommonZNA |-> eA, timeZNA |-> tA,
    energyCommonZNC |-> eC, timeZNC |-> tC ]

Event(c, trks) == [collision |-> c, tracks |-> trks]

\* SpecCollision: the vertex and the gap side vary
CollisionConfigs ==
  { DefaultConfig,
    [DefaultConfig EXCEPT !.specifyGapSide = FALSE],
    [DefaultConfig EXCEPT !.gapSide = 1],
    [DefaultConfig EXCEPT !.collisionsPosZMaxCut = 5] }

PosZValues    == {-11, -10, -6, -5, 0, 5, 6, 10, 11}
GapSideValues == {0, 1, 2}

CollisionCutEvents ==
  { Event(Collision(z, g, -1, 0, -1, 0), <<Pion(MomA, 1, 0), Pion(MomB, -1, 0)>>) :
      z \in PosZValues, g \in GapSideValues }

\* SpecTracks: the tracks vary in what the track cuts read
TrackConfigs == { DefaultConfig, [DefaultConfig EXCEPT !.requireTof = TRUE] }

TrackKinds ==
  { Pion(MomA, 1, 0), Pion(MomB, -1, 0),
    [Pion(MomA, 1, 0) EXCEPT !.isPVContributor = FALSE],
    [Pion(MomA, 1, 0) EXCEPT !.hasITS = FALSE],
    [Pion(MomA, 1, 0) EXCEPT !.hasTPC = FALSE],
    [Pion(MomA, 1, 0) EXCEPT !.hasTOF = FALSE],
    [Pion(MomA, 1, 0) EXCEPT !.dcaZ = 10000],
    [Pion(MomA, 1, 0) EXCEPT !.dcaZ = -10001],
    [Pion(MomA, 1, 0) EXCEPT !.dcaXY = 1164],
    [Pion(MomA, 1, 0) EXCEPT !.dcaXY = 1165],
    [Pion(MomA, 1, 0) EXCEPT !.hasTOF = FALSE, !.dcaXY = -2000],
    [Pion(MomA, 1, 0) EXCEPT !.hasITS = FALSE, !.hasTOF = FALSE, !.dcaZ = 20000],
    Pion(MomD, 1, 0),
    [Pion(MomD, 1, 0) EXCEPT !.dcaZ = 10001] }

TrackCutEvents ==
  { Event(Collision(0, 2, -1, 0, -1, 0), trks) :
      trks \in {<<>>} \cup {<<t>> : t \in TrackKinds}
                 \cup {<<t, u>> : t \in TrackKinds, u \in TrackKinds} }

\* SpecPid: the n-sigma values of one, two or three tracks vary
PidConfigs == { DefaultConfig, [DefaultConfig EXCEPT !.tracksTpcNSigmaPiCut = 25] }

NSigmaValues == {-35, -30, -20, 0, 20, 25, 30}

PidTrackSets ==
  {<<>>} \cup {<<Pion(MomA, 1, a)>> : a \in NSigmaValues}
    \cup {<<Pion(MomA, 1, a), Pion(MomB, -1, b)>> : a \in NSigmaValues, b \in NSigmaValues}
    \cup {<<Pion(MomA, 1, a), Pion(MomB, -1, b), Pion(MomC, -1, c)>> :
            a \in {0, 20}, b \in {0, 20}, c \in {0, 20}}

PidEvents == { Event(Collision(0, 2, -1, 0, -1, 0), trks) : trks \in PidTrackSets }

\* SpecZdc: the ZDC energies and times vary
ZdcConfigs ==
  { DefaultConfig, [DefaultConfig EXCEPT !.ZNcommonEnergyCut = 5, !.ZNtimeCut = 5] }

ZnEnergies == {-1, 0, 5, 9}
ZnTimes    == {-20, 0, 5, 50}

ZdcEvents ==
  { Event(Collision(0, 2, eA, tA, eC, tC), <<>>) :
      eA \in ZnEnergies, tA \in ZnTimes, eC \in ZnEnergies, tC \in ZnTimes }

\* Spec: the charge class and the system vary with the tag
\* pairs of each charge class, with a system inside and outside the cuts
PionPairs ==
  { <<Pion(MomA, 1, 0), Pion(MomB, -1, 0)>>,
    <<Pion(MomB, -1, 0), Pion(MomA, 1, 0)>>,
    <<Pion(MomA, 1, 0), Pion(MomB, 1, 0)>>,
    <<Pion(MomA, -1, 0), Pion(MomB, -1, 0)>>,
    <<Pion(MomA, 1, 0), Pion(MomC, -1, 0)>>,
    <<Pion(MomA, -1, 0), Pion(MomC, -1, 0)>>,
    <<Pion(MomA, 1, 25), Pion(MomB, -1, 25)>>,
    <<Pion(MomRhoPlus, 1, 0), Pion(MomRhoMinus, -1, 0)>> }

\* ZDC readings <<energy A, time A, energy C, time C>> of every tag and of
\* no tag under the default cuts
ZdcReadings ==
  { <<-1, 0, -1, 0>>, <<9, 5, -1, 0>>, <<-1, 0, 9, -5>>, <<9, 5, 9, 5>>,
    <<9, 50, -1, 0>>, <<0, 0, 0, 0>>, <<9, 5, 9, -50>>, <<5, 0, 9, 0>> }

ChargeEvents ==
  { Event(Collision(0, 2, z[1], z[2], z[3], z[4]), trks) :
      z \in ZdcReadings, trks \in PionPairs }

\* none, one, three, four, five and six tracks
OtherEvents ==
  { Event(Collision(z, 2, 9, 5, -1, 0), trks) :
      z \in {0, 11},
      trks \in { <<>>, <<Pion(MomA, 1, 0)>>,
                 <<Pion(MomA, 1, 0), Pion(MomB, -1, 0), Pion(MomC, -1, 0)>>,
                 <<Pion(MomA, 1, 0), Pion(MomB, -1, 0), Pion(MomA, -1, 0), Pion(MomB, 1, 0)>>,
                 <<Pion(MomA, 1, 0), Pion(MomB, -1, 0), Pion(MomA, 1, 0), Pion(MomB, 1, 0)>>,
                 <<Pion(MomA, 1, 0), Pion(MomB, -1, 0), Pion(MomA, -1, 0),
                   Pion(MomB, 1, 0), Pion(MomC, 1, 0), Pion(MomC, -1, 0)>>,
                 <<Pion(MomA, 1, 0), Pion(MomB, -1, 0), Pion(MomA, -1, 0),
                   Pion(MomB, 1, 0), Pion(MomC, 1, 0), Pion(MomC, 1, 0)>>,
                 <<Pion(MomA, 1, 0), Pion(MomB, -1, 0), Pion(MomA, -1, 0),
                   Pion(MomB, 1, 0), Pion(MomC, 1, 0)>>,
                 <<Pion(MomA, 1, 0), [Pion(MomC, 1, 0) EXCEPT !.hasTPC = FALSE],
                   Pion(MomB, -1, 0), Pion(MomA, -1, 0), Pion(MomB, 1, 0)>> } }

Events == ChargeEvents \cup OtherEvents

\* SpecSystem: the momenta and the charges of the selected tracks vary
SystemConfigs == { DefaultConfig, [DefaultConfig EXCEPT !.systemPtCut = 200] }

\* pairs of momenta: generic, collinear and back to back
MomentumPairs ==
  { <<MomA, MomB>>, <<MomB, MomA>>, <<MomE, MomA>>, <<MomA, MomE>>, <<MomA, MomC>>,
    <<MomF, MomE>>, <<MomE, MomF>>, <<MomG, MomH>>, <<MomI, MomJ>>, <<MomA, MomK>> }

SystemTrackSets ==
  { <<Pion(m[1], s1, 0), Pion(m[2], s2, 0)>> :
      m \in MomentumPairs, s1 \in {1, -1}, s2 \in {1, -1} }
    \cup { <<Pion(MomA, 1, 0), Pion(MomB, -1, 0), Pion(MomC, -1, 0)>>,
           <<Pion(MomC, -1, 0), Pion(MomA, 1, 0), Pion(MomB, -1, 0)>>,
           <<Pion(MomA, 1, 0), Pion(MomG, -1, 0), Pion(MomB, -1, 0), Pion(MomI, 1, 0)>>,
           <<Pion(MomI, 1, 0), Pion(MomB, -1, 0), Pion(MomG, -1, 0), Pion(MomA, 1, 0)>> }

SystemEvents == { Event(Collision(0, 2, -1, 0, -1, 0), trks) : trks \in SystemTrackSets }

\* SpecSystemCuts: every system cut in turn sits on the value of a pair, and
\* one unit inside it
SystemCutConfigs ==
  { DefaultConfig,
    [DefaultConfig EXCEPT !.systemMassMinCut = 662],
    [DefaultConfig EXCEPT !.systemMassMinCut = 663],
    [DefaultConfig EXCEPT !.systemMassMaxCut = 662],
    [DefaultConfig EXCEPT !.systemMassMaxCut = 661],
    [DefaultConfig EXCEPT !.systemPtCut = 160],
    [DefaultConfig EXCEPT !.systemPtCut = 159],
    [DefaultConfig EXCEPT !.systemYCut = 18750],
    [DefaultConfig EXCEPT !.systemYCut = 18749] }

\* pairs of mass 662 (MomF, MomE), of pT 160 (MomA, MomC) and of
\* tanh(rapidity) 0.18750 (MomA, MomL), and two pairs inside the default cuts
SystemCutPairs ==
  { <<MomF, MomE>>, <<MomA, MomC>>, <<MomA, MomL>>, <<MomA, MomB>>,
    <<MomRhoPlus, MomRhoMinus>> }

SystemCutEvents ==
  { Event(Collision(0, 2, 9, 5, -1, 0), <<Pion(m[1], q[1], 0), Pion(m[2], q[2], 0)>>) :
      m \in SystemCutPairs, q \in {<<1, -1>>, <<1, 1>>, <<-1, -1>>} }

\* SpecSequence: sequences of events, with collisions failing the collision
\* cuts and events stopping at every later return of processReco
SequenceEvents ==
  { Event(Collision(11, 2, 9, 5, -1, 0), <<Pion(MomRhoPlus, 1, 0), Pion(MomRhoMinus, -1, 0)>>),
    Event(Collision(0, 1, 9, 5, -1, 0), <<Pion(MomA, 1, 0), Pion(MomB, 1, 0)>>),
    Event(Collision(0, 2, 9, 5, -1, 0), <<Pion(MomRhoPlus, 1, 0), Pion(MomRhoMinus, -1, 0)>>),
    Event(Collision(0, 2, -1, 0, -1, 0), <<Pion(MomA, 1, 0), Pion(MomB, 1, 0)>>),
    Event(Collision(0, 2, -1, 0, -1, 0), <<Pion(MomA, 1, 25), Pion(MomB, -1, 25)>>),
    Event(Collision(0, 2, -1, 0, 9, 5),
          <<Pion(MomA, 1, 0), Pion(MomB, -1, 0), Pion(MomA, -1, 0), Pion(MomB, 1, 0)>>),
    Event(Collision(0, 2, -1, 0, -1, 0),
          <<[Pion(MomA, 1, 0) EXCEPT !.hasITS = FALSE], Pion(MomB, -1, 0)>>),
    Event(Collision(0, 2, 9, 5, 9, 5), <<Pion(MomA, 1, 0), Pion(MomC, -1, 0)>>),
    Event(Collision(0, 2, -1, 0, -1, 0),
          <<Pion(MomA, 1, 0), Pion(MomB, -1, 0), Pion(MomC, -1, 0)>>),
    Event(Collision(-11, 2, -1, 0, -1, 0), <<Pion(MomA, 1, 0)>>),
    Event(Collision(0, 2, -1, 0, -1, 0),
          <<[Pion(MomA, 1, 0) EXCEPT !.hasTOF = FALSE],
            [Pion(MomB, -1, 0) EXCEPT !.dcaZ = 20000]>>),
    Event(Collision(0, 2, -1, 0, -1, 0), <<>>) }

\* SpecSequence: the default configuration, and the TOF required
SequenceConfigs == { DefaultConfig, [DefaultConfig EXCEPT !.requireTof = TRUE] }

---------------------------------------------------------------------------
(* The task myAnalysis of PWGLF/Tasks/Strangeness/lambdaJetpolarization.cxx *)
(* Fixed point: lengths 0.01 cm; cos(PA) 0.001; eta 0.01; pt 0.01 GeV/c;   *)
(* number of sigmas 0.1; chi2 0.1; V0 momenta MeV; yMin and yMax are kept  *)
(* as 100000 * tanh of the rapidity.                                       *)

\* the mass 1.115683 of lines 368 and 412, in MeV
MassLambda == 1116

\* 100000 * tanh(0.5), for yMin = -0.5 and yMax = +0.5
YMaxTanh == 46212

\* the Configurables after construction, lines 39-116
DefaultAnalysis ==
  [ v0cospa |-> 995, dcanegtopv |-> 5, dcapostopv |-> 5,
    cDebugLevel |-> 1, cfgVtxCut |-> 1000, cfgtrkMinPt |-> 15, cfgtrkMaxEta |-> 80,
    requireITS |-> FALSE, requireTOF |-> FALSE, requireTPC |-> FALSE,
    requirepassedSingleTrackSelection |-> FALSE,
    minITSnCls |-> 4, minTPCnClsFound |-> 80, minNCrossedRowsTPC |-> 80,
    maxChi2TPC |-> 40, etaMin |-> -80, etaMax |-> 80,
    dcaV0DaughtersMax |-> 50, minimumV0Radius |-> 40,
    nsigmaTPCmin |-> -30, nsigmaTPCmax |-> 30,
    nsigmaTOFmin |-> -30, nsigmaTOFmax |-> 30,
    yMin |-> -YMaxTanh, yMax |-> YMaxTanh,
    cutzvertex |-> 1000, sel8 |-> FALSE, isTriggerTVX |-> FALSE,
    iscutzvertex |-> FALSE, isNoTimeFrameBorder |-> FALSE,
    isNoITSROFrameBorder |-> FALSE, isVertexTOFmatched |-> TRUE,
    isGoodZvtxFT0vsPV |-> TRUE, dcav0dau |-> 100 ]

\* the histograms of JEhistos, lines 135-190, with the bins of hNEvents
JEhistosBins ==
  { <<h, 0>> :
      h \in { "h_track_pt", "h_track_eta", "h_track_phi", "nJetsPerEvent",
              "FJetaHistogram", "FJphiHistogram", "FJptHistogram",
              "hDCArToPv", "hDCAzToPv", "rawpT", "rawDpT", "hIsPrim", "hIsGood",
              "hIsPrimCont", "hFindableTPCClusters", "hFindableTPCRows",
              "hClustersVsRows", "hTPCChi2", "hITSChi2",
              "etaHistogram", "phiHistogram", "ptHistogram", "V0Counts", "hUSS_1D",
              "hPt", "hMassVsPtLambda", "hMassVsPtAntiLambda", "hMassLambda",
              "hMassAntiLambda", "V0Radius", "CosPA", "V0DCANegToPV", "V0DCAPosToPV",
              "V0DCAV0Daughters", "TPCNSigmaPosPi", "TPCNSigmaNegPi",
              "TPCNSigmaPosPr", "TPCNSigmaNegPr" } }
    \cup { <<"hNEvents", b>> : b \in 0..9 }

\* the task after init() with the Configurables of cfg: the histograms of
\* JEhistos and those of registry, lines 192-200, are booked and empty
AnalysisAfterInit(cfg) ==
  [ cfg |-> cfg,
    JEhistos |-> [k \in JEhistosBins |-> 0],
    registry |-> [k \in { <<"hNEventsJet", b>> : b \in 0..3 } \cup { <<"hV0NEvents", 0>> } |-> 0],
    nEvents |-> 0, nEventsV0 |-> 0 ]

\* no handler of myAnalysis has been called
NoCall ==
  [ handler |-> "none", collision |-> <<>>, V0s |-> <<>>, tracks |-> <<>>,
    nJets |-> 0, accept |-> FALSE, fills |-> <<>>, jetFills |-> <<>>,
    lambda |-> <<>>, antiLambda |-> <<>> ]

\* lines 310-329
passedSingleTrackSelection(track) ==
  IF myAnalysis.cfg.requireITS /\ ~track.hasITS THEN FALSE
  ELSE IF myAnalysis.cfg.requireITS /\ track.itsNCls < myAnalysis.cfg.minITSnCls THEN FALSE
  ELSE IF ~track.hasTPC THEN FALSE
  ELSE IF track.tpcNClsFound < myAnalysis.cfg.minTPCnClsFound THEN FALSE
  ELSE IF track.tpcNClsCrossedRows < myAnalysis.cfg.minNCrossedRowsTPC THEN FALSE
  ELSE IF track.tpcChi2NCl > myAnalysis.cfg.maxChi2TPC THEN FALSE
  ELSE IF track.eta < myAnalysis.cfg.etaMin \/ track.eta > myAnalysis.cfg.etaMax THEN FALSE
  ELSE IF myAnalysis.cfg.requireTOF /\ ~track.hasTOF THEN FALSE
  ELSE TRUE

\* a number of sigmas outside [lo, hi]
OutsideWindow(nSigma, lo, hi) == nSigma < lo \/ nSigma > hi

\* lines 367-371 and 411-415: the rapidity of the V0 with the Lambda mass is
\* outside [yMin, yMax], compared through its tanh, pz / E
V0RapidityOutside(v0) ==
  LET e == Isqrt(v0.px * v0.px + v0.py * v0.py + v0.pz * v0.pz + MassLambda * MassLambda)
  IN \/ v0.pz * 100000 < myAnalysis.cfg.yMin * e
     \/ v0.pz * 100000 > myAnalysis.cfg.yMax * e

\* lines 348-352 and 386-390
V0TopologyOutside(v0, ptrack, ntrack) ==
  \/ v0.v0radius < myAnalysis.cfg.minimumV0Radius
  \/ v0.v0cosPA < myAnalysis.cfg.v0cospa
  \/ Abs(ptrack.eta) > myAnalysis.cfg.etaMax
  \/ Abs(ntrack.eta) > myAnalysis.cfg.etaMax

\* lines 331-374; lines 353 and 355 both read v0.dcapostopv()
passedLambdaSelection(v0, ptrack, ntrack) ==
  IF /\ myAnalysis.cfg.requirepassedSingleTrackSelection
     /\ ~passedSingleTrackSelection(ptrack) THEN FALSE
  ELSE IF /\ myAnalysis.cfg.requirepassedSingleTrackSelection
          /\ ~passedSingleTrackSelection(ntrack) THEN FALSE
  ELSE IF /\ myAnalysis.cfg.requireTOF
          /\ \/ OutsideWindow(ptrack.tofNSigmaPr, myAnalysis.cfg.nsigmaTOFmin, myAnalysis.cfg.nsigmaTOFmax)
             \/ OutsideWindow(ntrack.tofNSigmaPi, myAnalysis.cfg.nsigmaTOFmin, myAnalysis.cfg.nsigmaTOFmax)
    THEN FALSE
  ELSE IF V0TopologyOutside(v0, ptrack, ntrack) THEN FALSE
  ELSE IF Abs(v0.dcapostopv) < myAnalysis.cfg.dcanegtopv THEN FALSE
  ELSE IF Abs(v0.dcapostopv) < myAnalysis.cfg.dcapostopv THEN FALSE
  ELSE IF v0.dcaV0daughters > myAnalysis.cfg.dcav0dau THEN FALSE
  ELSE IF /\ myAnalysis.cfg.requireTPC
          /\ \/ OutsideWindow(ptrack.tpcNSigmaPr, myAnalysis.cfg.nsigmaTPCmin, myAnalysis.cfg.nsigmaTPCmax)
             \/ OutsideWindow(ntrack.tpcNSigmaPi, myAnalysis.cfg.nsigmaTPCmin, myAnalysis.cfg.nsigmaTPCmax)
    THEN FALSE
  ELSE IF V0RapidityOutside(v0) THEN FALSE
  ELSE TRUE

\* lines 377-418; lines 392 and 394 both read v0.dcapostopv(), and the TPC
\* block tests the daughters as for the Lambda
passedAntiLambdaSelection(v0, ptrack, ntrack) ==
  IF /\ myAnalysis.cfg.requirepassedSingleTrackSelection
     /\ ~passedSingleTrackSelection(ptrack) THEN FALSE
  ELSE IF /\ myAnalysis.cfg.requirepassedSingleTrackSelection
          /\ ~passedSingleTrackSelection(ntrack) THEN FALSE
  ELSE IF V0TopologyOutside(v0, ptrack, ntrack) THEN FALSE
  ELSE IF Abs(v0.dcapostopv) < myAnalysis.cfg.dcanegtopv THEN FALSE
  ELSE IF Abs(v0.dcapostopv) < myAnalysis.cfg.dcapostopv THEN FALSE
  ELSE IF v0.dcaV0daughters > myAnalysis.cfg.dcav0dau THEN FALSE
  ELSE IF /\ myAnalysis.cfg.requireTOF
          /\ \/ OutsideWindow(ptrack.tofNSigmaPi, myAnalysis.cfg.nsigmaTOFmin, myAnalysis.cfg.nsigmaTOFmax)
             \/ OutsideWindow(ntrack.tofNSigmaPr, myAnalysis.cfg.nsigmaTOFmin, myAnalysis.cfg.nsigmaTOFmax)
    THEN FALSE
  ELSE IF /\ myAnalysis.cfg.requireTPC
          /\ \/ OutsideWindow(ptrack.tpcNSigmaPr, myAnalysis.cfg.nsigmaTPCmin, myAnalysis.cfg.nsigmaTPCmax)
             \/ OutsideWindow(ntrack.tpcNSigmaPi, myAnalysis.cfg.nsigmaTPCmin, myAnalysis.cfg.nsigmaTPCmax)
    THEN FALSE
  ELSE IF V0RapidityOutside(v0) THEN FALSE
  ELSE TRUE

AcceptEvent_zvertexAlways(c) ==
  \* mutant: the z-vertex cut is applied whatever iscutzvertex says
  IF myAnalysis.cfg.sel8 /\ ~c.sel8 THEN [ret |-> FALSE, bins |-> <<>>]
  ELSE IF myAnalysis.cfg.isTriggerTVX /\ ~c.kIsTriggerTVX
    THEN [ret |-> FALSE, bins |-> <<1>>]
  ELSE IF Abs(c.posZ) > myAnalysis.cfg.cutzvertex
    THEN [ret |-> FALSE, bins |-> <<1, 2>>]
  ELSE IF myAnalysis.cfg.isNoTimeFrameBorder /\ ~c.kNoTimeFrameBorder
    THEN [ret |-> FALSE, bins |-> <<1, 2, 3>>]
  ELSE IF myAnalysis.cfg.isNoITSROFrameBorder /\ ~c.kNoITSROFrameBorder
    THEN [ret |-> FALSE, bins |-> <<1, 2, 3, 4>>]
  ELSE IF myAnalysis.cfg.isVertexTOFmatched /\ ~c.kIsVertexTOFmatched
    THEN [ret |-> FALSE, bins |-> <<1, 2, 3, 4, 5>>]
  ELSE IF myAnalysis.cfg.isGoodZvtxFT0vsPV /\ ~c.kIsGoodZvtxFT0vsPV
    THEN [ret |-> FALSE, bins |-> <<1, 2, 3, 4, 5, 6>>]
  ELSE [ret |-> TRUE, bins |-> <<1, 2, 3, 4, 5, 6, 7>>]

\* lines 420-458: the value returned and the bins of hNEvents filled on the
\* way, bin b being the one that holds b + 0.5
AcceptEvent(c) ==
  IF myAnalysis.cfg.sel8 /\ ~c.sel8 THEN [ret |-> FALSE, bins |-> <<>>]
  ELSE IF myAnalysis.cfg.isTriggerTVX /\ ~c.kIsTriggerTVX
    THEN [ret |-> FALSE, bins |-> <<1>>]
  ELSE IF myAnalysis.cfg.iscutzvertex /\ Abs(c.posZ) > myAnalysis.cfg.cutzvertex
    THEN [ret |-> FALSE, bins |-> <<1, 2>>]
  ELSE IF myAnalysis.cfg.isNoTimeFrameBorder /\ ~c.kNoTimeFrameBorder
    THEN [ret |-> FALSE, bins |-> <<1, 2, 3>>]
  ELSE IF myAnalysis.cfg.isNoITSROFrameBorder /\ ~c.kNoITSROFrameBorder
    THEN [ret |-> FALSE, bins |-> <<1, 2, 3, 4>>]
  ELSE IF myAnalysis.cfg.isVertexTOFmatched /\ ~c.kIsVertexTOFmatched
    THEN [ret |-> FALSE, bins |-> <<1, 2, 3, 4, 5>>]
  ELSE IF myAnalysis.cfg.isGoodZvtxFT0vsPV /\ ~c.kIsGoodZvtxFT0vsPV
    THEN [ret |-> FALSE, bins |-> <<1, 2, 3, 4, 5, 6>>]
  ELSE [ret |-> TRUE, bins |-> <<1, 2, 3, 4, 5, 6, 7>>]

\* lines 459-460: Filter preFilterV0 on the V0 table
preFilterV0(v0) ==
  /\ Abs(v0.dcapostopv) > myAnalysis.cfg.dcapostopv
  /\ Abs(v0.dcanegtopv) > myAnalysis.cfg.dcanegtopv
  /\ v0.dcaV0daughters < myAnalysis.cfg.dcaV0DaughtersMax

\* lines 537-544: the fills of the first passedLambdaSelection block
LambdaQAFills ==
  << Fill("hPt"), Fill("V0Radius"), Fill("CosPA"), Fill("V0DCANegToPV"),
     Fill("V0DCAPosToPV"), Fill("V0DCAV0Daughters") >>

\* lines 546-552
LambdaFills ==
  << Fill("hMassVsPtLambda"), Fill("hMassLambda"),
     Fill("TPCNSigmaPosPr"), Fill("TPCNSigmaNegPi") >>

\* lines 553-559
AntiLambdaFills ==
  << Fill("hMassVsPtAntiLambda"), Fill("hMassAntiLambda"),
     Fill("TPCNSigmaPosPi"), Fill("TPCNSigmaNegPr") >>

\* lines 533-560: the body of the loop for one V0
V0Fills(v0) ==
  (IF passedLambdaSelection(v0, v0.posTrack, v0.negTrack)
     THEN LambdaQAFills \o LambdaFills ELSE <<>>)
  \o (IF passedAntiLambdaSelection(v0, v0.posTrack, v0.negTrack)
        THEN AntiLambdaFills ELSE <<>>)

\* lines 526-561: the fills of a call with the V0s that passed the filter
ProcessV0Fills(accepted, V0s) ==
  << FillBin("hNEvents", 0) >>
  \o [i \in DOMAIN accepted.bins |-> FillBin("hNEvents", accepted.bins[i])]
  \o (IF ~accepted.ret THEN <<>>
      ELSE << FillBin("hNEvents", 8) >>
           \o Flatten([i \in DOMAIN V0s |-> V0Fills(V0s[i])])
           \o << Fill("V0Counts") >>)

\* lines 523-562; the framework passes the rows of the V0 table that pass
\* preFilterV0
processV0(c, V0Datas) ==
  LET V0s      == SelectSeq(V0Datas, preFilterV0)
      accepted == AcceptEvent(c)
      fills    == ProcessV0Fills(accepted, V0s)
  IN /\ myAnalysis' = [myAnalysis EXCEPT !.nEventsV0 = @ + 1,
                                         !.JEhistos = ApplyFills(@, fills)]
     /\ call' = [NoCall EXCEPT !.handler = "processV0", !.collision = c, !.V0s = V0s,
                               !.accept = accepted.ret, !.fills = fills,
                               !.lambda = [i \in DOMAIN V0s |->
                                             passedLambdaSelection(V0s[i], V0s[i].posTrack, V0s[i].negTrack)],
                               !.antiLambda = [i \in DOMAIN V0s |->
                                                 passedAntiLambdaSelection(V0s[i], V0s[i].posTrack, V0s[i].negTrack)]]
     /\ UNCHANGED <<config, registry, nEvents, collision, tracks, frame>>

\* lines 487-501: the fills made for every selected track
JetTrackQAFills ==
  << Fill("hDCArToPv"), Fill("hDCAzToPv"), Fill("rawpT"), Fill("rawDpT"),
     Fill("hIsPrim"), Fill("hIsGood"), Fill("hIsPrimCont"),
     Fill("hFindableTPCClusters"), Fill("hFindableTPCRows"), Fill("hClustersVsRows"),
     Fill("hTPCChi2"), Fill("hITSChi2"),
     Fill("h_track_pt"), Fill("h_track_eta"), Fill("h_track_phi") >>

\* lines 506-508
JetTrackKinematicFills ==
  << Fill("ptHistogram"), Fill("etaHistogram"), Fill("phiHistogram") >>

\* lines 481-509: the body of the track loop for one track
JetTrackFills(track) ==
  IF ~track.selectTrack THEN <<>>
  ELSE IF track.pt < myAnalysis.cfg.cfgtrkMinPt /\ Abs(track.eta) > myAnalysis.cfg.cfgtrkMaxEta
    THEN JetTrackQAFills
  ELSE JetTrackQAFills \o JetTrackKinematicFills

\* lines 510-518: the jet loop over nJets jets and the fill of nJetsPerEvent
JetFills(nJets) ==
  Flatten([j \in 1..nJets |->
             << Fill("FJetaHistogram"), Fill("FJphiHistogram"), Fill("FJptHistogram") >>])
  \o << Fill("nJetsPerEvent") >>

\* lines 470-479: the bins of hNEventsJet filled
JetEventBins(c) ==
  IF Abs(c.posZ) > myAnalysis.cfg.cfgVtxCut THEN <<0>>
  ELSE IF ~c.selectCollision THEN <<0, 1>>
  ELSE <<0, 1, 2>>

\* lines 462-521; nJets is the number of jets that pass the filter jetCuts
processJetTracks(c, nJets, trks) ==
  LET bins     == JetEventBins(c)
      jetFills == [i \in DOMAIN bins |-> FillBin("hNEventsJet", bins[i])]
      fills    == IF Len(bins) < 3 THEN <<>>
                  ELSE Flatten([i \in DOMAIN trks |-> JetTrackFills(trks[i])])
                       \o JetFills(nJets)
  IN /\ myAnalysis' = [myAnalysis EXCEPT
                         !.nEvents = IF myAnalysis.cfg.cDebugLevel > 0 THEN @ + 1 ELSE @,
                         !.registry = ApplyFills(@, jetFills),
                         !.JEhistos = ApplyFills(@, fills)]
     /\ call' = [NoCall EXCEPT !.handler = "processJetTracks", !.collision = c,
                               !.tracks = trks, !.nJets = nJets,
                               !.fills = fills, !.jetFills = jetFills]
     /\ UNCHANGED <<config, registry, nEvents, collision, tracks, frame>>

\* passedLambdaSelection and passedAntiLambdaSelection applied to one V0
\* candidate and its daughters
applySelections(v0) ==
  /\ call' = [NoCall EXCEPT !.handler = "selections", !.V0s = <<v0>>,
                            !.lambda = <<passedLambdaSelection(v0, v0.posTrack, v0.negTrack)>>,
                            !.antiLambda = <<passedAntiLambdaSelection(v0, v0.posTrack, v0.negTrack)>>]
  /\ UNCHANGED <<myAnalysis, config, registry, nEvents, collision, tracks, frame>>

\* SpecV0: the event selection toggles and the selection bits vary
V0Configs ==
  { DefaultAnalysis,
    [DefaultAnalysis EXCEPT !.sel8 = TRUE, !.isTriggerTVX = TRUE, !.iscutzvertex = TRUE,
                            !.isNoTimeFrameBorder = TRUE, !.isNoITSROFrameBorder = TRUE],
    [DefaultAnalysis EXCEPT !.isVertexTOFmatched = FALSE, !.isGoodZvtxFT0vsPV = FALSE],
    [DefaultAnalysis EXCEPT !.iscutzvertex = TRUE, !.isNoITSROFrameBorder = TRUE,
                            !.isVertexTOFmatched = FALSE] }

V0Collision(sel8, tvx, z, tfb, rofb, tof, good) ==
  [ sel8 |-> sel8, kIsTriggerTVX |-> tvx, posZ |-> z, kNoTimeFrameBorder |-> tfb,
    kNoITSROFrameBorder |-> rofb, kIsVertexTOFmatched |-> tof, kIsGoodZvtxFT0vsPV |-> good ]

\* a collision that every stage accepts, collisions that fail one stage or
\* two, and vertices on and outside cutzvertex
V0Collisions ==
  { V0Collision(TRUE, TRUE, 0, TRUE, TRUE, TRUE, TRUE),
    V0Collision(FALSE, TRUE, 0, TRUE, TRUE, TRUE, TRUE),
    V0Collision(TRUE, FALSE, 0, TRUE, TRUE, TRUE, TRUE),
    V0Collision(TRUE, TRUE, 1000, TRUE, TRUE, TRUE, TRUE),
    V0Collision(TRUE, TRUE, -1100, TRUE, TRUE, TRUE, TRUE),
    V0Collision(TRUE, TRUE, 0, FALSE, TRUE, TRUE, TRUE),
    V0Collision(TRUE, TRUE, 0, TRUE, FALSE, TRUE, TRUE),
    V0Collision(TRUE, TRUE, 0, TRUE, TRUE, FALSE, TRUE),
    V0Collision(TRUE, TRUE, 0, TRUE, TRUE, TRUE, FALSE),
    V0Collision(FALSE, TRUE, 0, TRUE, TRUE, TRUE, FALSE),
    V0Collision(TRUE, FALSE, 1100, TRUE, FALSE, TRUE, TRUE) }

\* a daughter track of pseudorapidity eta with nSigma sigmas in every PID
\* variable
Daughter(eta, nSigma) ==
  [ hasITS |-> TRUE, itsNCls |-> 7, hasTPC |-> TRUE, tpcNClsFound |-> 100,
    tpcNClsCrossedRows |-> 100, tpcChi2NCl |-> 10, eta |-> eta, hasTOF |-> TRUE,
    tofNSigmaPr |-> nSigma, tofNSigmaPi |-> nSigma,
    tpcNSigmaPr |-> nSigma, tpcNSigmaPi |-> nSigma ]

\* a V0 of radius 5 cm and momentum (1000, 0, pz) MeV
V0(dcapos, dcaneg, cosPA, dcaDaughters, pz, pos, neg) ==
  [ dcapostopv |-> dcapos, dcanegtopv |-> dcaneg, v0radius |-> 500, v0cosPA |-> cosPA,
    dcaV0daughters |-> dcaDaughters, px |-> 1000, py |-> 0, pz |-> pz,
    posTrack |-> pos, negTrack |-> neg ]

V0Tables ==
  { <<>>,
    << V0(20, -20, 999, 10, 0, Daughter(0, 0), Daughter(10, 0)),
       V0(20, 3, 999, 10, 0, Daughter(0, 0), Daughter(10, 0)),
       V0(20, -20, 990, 10, 0, Daughter(0, 0), Daughter(10, 0)) >>,
    << V0(-7, 7, 999, 10, 2000, Daughter(0, 0), Daughter(10, 0)) >> }

\* SpecJetTracks: the kinematic limits and the tracks vary
JetConfigs ==
  { DefaultAnalysis, [DefaultAnalysis EXCEPT !.cfgtrkMinPt = 20, !.cfgtrkMaxEta = 90] }

JetCollision(z, sel) == [posZ |-> z, selectCollision |-> sel]

JTrack(sel, pt, eta) == [selectTrack |-> sel, pt |-> pt, eta |-> eta]

\* one track below, on or above cfgtrkMinPt and inside, on or outside
\* cfgtrkMaxEta, and three tracks in collisions on and outside the cuts
JetEvents ==
  { [collision |-> JetCollision(0, TRUE), nJets |-> n, tracks |-> <<JTrack(sel, pt, eta)>>] :
      n \in {0, 2}, sel \in BOOLEAN, pt \in {10, 15, 20}, eta \in {-90, -80, 0, 80, 90} }
  \cup { [collision |-> c, nJets |-> 1,
          tracks |-> <<JTrack(TRUE, 20, 0), JTrack(TRUE, 10, 90), JTrack(TRUE, 10, 0)>>] :
          c \in {JetCollision(1000, TRUE), JetCollision(1100, TRUE), JetCollision(0, FALSE)} }

\* SpecLambdaSelection: the DCA of the daughters and the two thresholds vary
SelectionConfigs ==
  { DefaultAnalysis,
    [DefaultAnalysis EXCEPT !.dcanegtopv = 10],
    [DefaultAnalysis EXCEPT !.dcapostopv = 10],
    [DefaultAnalysis EXCEPT !.requirepassedSingleTrackSelection = TRUE,
                            !.requireTOF = TRUE, !.requireTPC = TRUE] }

SelectionInputs ==
  { V0(dcapos, dcaneg, 999, 10, 0, Daughter(0, n), Daughter(10, 0)) :
      dcapos \in {-20, -7, 3, 5, 7}, dcaneg \in {-20, 3, 5, -7}, n \in {0, 40} }
  \cup { V0(20, 20, cosPA, d, pz, Daughter(eta, 0), Daughter(10, 0)) :
           cosPA \in {990, 995}, d \in {100, 101}, pz \in {0, 600}, eta \in {80, -81} }

---------------------------------------------------------------------------
(* The task as a state machine *)

\* upcRhoAnalysis after init(): the Configurables hold one configuration of
\* cs, the histograms are booked and empty, processReco has not been called
InitUpc(cs) ==
  /\ \E c \in cs :
       /\ specifyGapSide = c.specifyGapSide
       /\ gapSide = c.gapSide
       /\ requireTof = c.requireTof
       /\ collisionsPosZMaxCut = c.collisionsPosZMaxCut
       /\ ZNcommonEnergyCut = c.ZNcommonEnergyCut
       /\ ZNtimeCut = c.ZNtimeCut
       /\ tracksTpcNSigmaPiCut = c.tracksTpcNSigmaPiCut
       /\ tracksDcaMaxCut = c.tracksDcaMaxCut
       /\ systemMassMinCut = c.systemMassMinCut
       /\ systemMassMaxCut = c.systemMassMaxCut
       /\ systemPtCut = c.systemPtCut
       /\ systemYCut = c.systemYCut
  /\ registry = [k \in RegistryBins |-> 0]
  /\ nEvents = 0
  /\ collision = Collision(0, 0, 0, 0, 0, 0)
  /\ tracks = <<>>
  /\ frame = NoFrame

\* the two tasks after init(), upcRhoAnalysis with one configuration of cs and
\* myAnalysis with its default Configurables
InitWith(cs) ==
  /\ InitUpc(cs)
  /\ myAnalysis = AnalysisAfterInit(DefaultAnalysis)
  /\ call = NoCall

\* the locals a call can end with: one outcome per result of the shuffle of
\* line 431 when the call gets to getPhiRandom (line 529), one otherwise
ProcessRecoOutcomes(c, trks) ==
  LET f == ProcessRecoFrame(c, trks, <<0, 1>>)
  IN IF f.pid /\ f.nTracks = 2
       THEN {f} \cup {ProcessRecoFrame(c, trks, indices) : indices \in ShuffleOutcomes \ {<<0, 1>>}}
       ELSE {f}

\* the framework calls processReco with a collision and its tracks; the
\* time-seeded shuffle of getPhiRandom comes out either way
processReco(c, trks) ==
  \E f \in ProcessRecoOutcomes(c, trks) :
    /\ frame' = f
    /\ registry' = ApplyFills(registry, f.fills)
    /\ collision' = c
    /\ tracks' = trks
    /\ nEvents' = nEvents + 1
    /\ UNCHANGED <<config, myAnalysis, call>>

\* events of every charge class and tag, under the default configuration
Init == InitWith({DefaultConfig, [DefaultConfig EXCEPT !.ZNcommonEnergyCut = 5, !.ZNtimeCut = 5]})
Next ==
  /\ nEvents < MaxEvents
  /\ \E ev \in Events : processReco(ev.collision, ev.tracks)
Spec == Init /\ [][Next]_vars

\* collisions around the collision cuts
InitCollision == InitWith(CollisionConfigs)
NextCollision ==
  /\ nEvents < MaxEvents
  /\ \E ev \in CollisionCutEvents : processReco(ev.collision, ev.tracks)
SpecCollision == InitCollision /\ [][NextCollision]_vars

\* tracks around the track cuts
InitTracks == InitWith(TrackConfigs)
NextTracks ==
  /\ nEvents < MaxEvents
  /\ \E ev \in TrackCutEvents : processReco(ev.collision, ev.tracks)
SpecTracks == InitTracks /\ [][NextTracks]_vars

\* track sets around the PID cut
InitPid == InitWith(PidConfigs)
NextPid ==
  /\ nEvents < MaxEvents
  /\ \E ev \in PidEvents : processReco(ev.collision, ev.tracks)
SpecPid == InitPid /\ [][NextPid]_vars

\* selected tracks of varying momenta and charges
InitSystem == InitWith(SystemConfigs)
NextSystem ==
  /\ nEvents < MaxEvents
  /\ \E ev \in SystemEvents : processReco(ev.collision, ev.tracks)
SpecSystem == InitSystem /\ [][NextSystem]_vars

\* collisions around the ZDC thresholds
InitZdc == InitWith(ZdcConfigs)
NextZdc ==
  /\ nEvents < MaxEvents
  /\ \E ev \in ZdcEvents : processReco(ev.collision, ev.tracks)
SpecZdc == InitZdc /\ [][NextZdc]_vars

\* pairs on and next to the system cuts
InitSystemCuts == InitWith(SystemCutConfigs)
NextSystemCuts ==
  /\ nEvents < MaxEvents
  /\ \E ev \in SystemCutEvents : processReco(ev.collision, ev.tracks)
SpecSystemCuts == InitSystemCuts /\ [][NextSystemCuts]_vars

\* sequences of MaxSequence events
InitSequence == InitWith(SequenceConfigs)
NextSequence ==
  /\ nEvents < MaxSequence
  /\ \E ev \in SequenceEvents : processReco(ev.collision, ev.tracks)
SpecSequence == InitSequence /\ [][NextSequence]_vars

\* the event selection over sequences of MaxV0Events calls of processV0
InitV0 ==
  /\ InitUpc({DefaultConfig})
  /\ \E cfg \in V0Configs : myAnalysis = AnalysisAfterInit(cfg)
  /\ call = NoCall
NextV0 ==
  /\ myAnalysis.nEventsV0 < MaxV0Events
  /\ \E c \in V0Collisions, V0Datas \in V0Tables : processV0(c, V0Datas)
SpecV0 == InitV0 /\ [][NextV0]_vars

\* tracks around the kinematic limits of processJetTracks
InitJetTracks ==
  /\ InitUpc({DefaultConfig})
  /\ \E cfg \in JetConfigs : myAnalysis = AnalysisAfterInit(cfg)
  /\ call = NoCall
NextJetTracks ==
  /\ myAnalysis.nEvents < MaxJetEvents
  /\ \E ev \in JetEvents : processJetTracks(ev.collision, ev.nJets, ev.tracks)
SpecJetTracks == InitJetTracks /\ [][NextJetTracks]_vars

\* the two V0 selections on candidates around the DCA thresholds
InitLambdaSelection ==
  /\ InitUpc({DefaultConfig})
  /\ \E cfg \in SelectionConfigs : myAnalysis = AnalysisAfterInit(cfg)
  /\ call = NoCall
NextLambdaSelection ==
  \E v0 \in SelectionInputs : applySelections(v0)
SpecLambdaSelection == InitLambdaSelection /\ [][NextLambdaSelection]_vars

---------------------------------------------------------------------------
(* Properties of the collision cuts, SpecCollision *)

\* C1: collisionPassesCuts returns true exactly when |posZ| is at most
\* collisionsPosZMaxCut and the gap side is either not required or equal to the
\* configured one; a vertex exactly on the bound is accepted.
C1_CollisionCuts ==
  nEvents > 0 =>
    /\ frame.passed <=>
         /\ Abs(collision.posZ) <= collisionsPosZMaxCut
         /\ ~specifyGapSide \/ collision.gapSide = gapSide
    /\ Abs(collision.posZ) > collisionsPosZMaxCut => frame.ret = "collision cuts"
    /\ specifyGapSide /\ collision.gapSide # gapSide => frame.ret = "collision cuts"

\* a collision on the vertex bound, with the required gap side, was accepted
C1_Witness ==
  /\ nEvents > 0
  /\ Abs(collision.posZ) = collisionsPosZMaxCut
  /\ specifyGapSide /\ collision.gapSide = gapSide
  /\ frame.passed

---------------------------------------------------------------------------
(* Properties of the track cuts, SpecTracks *)

\* the condition under which stage k of the track cuts rejects track t
StageFails(t, k) ==
  CASE k = 1 -> ~t.isPVContributor
    [] k = 2 -> ~t.hasITS \/ ~t.hasTPC
    [] k = 3 -> requireTof /\ ~t.hasTOF
    [] k = 4 -> Abs(t.dcaZ) > tracksDcaMaxCut \/ Abs(t.dcaXY) > DcaXYMaxCut(t)
    [] k = 5 -> EtaOutside(t)

\* the first stage in the order 1..5 that rejects t, 6 when none does
FirstFailingStage(t) ==
  IF \E k \in 1..5 : StageFails(t, k)
    THEN CHOOSE k \in 1..5 : StageFails(t, k) /\ \A j \in 1..(k - 1) : ~StageFails(t, j)
    ELSE 6

\* the number of fills of bin b of the selection counter made by the call
CounterFills(b) ==
  Cardinality({i \in DOMAIN frame.fills :
                 frame.fills[i].h = hSelectionCounter /\ frame.fills[i].bin = b})

\* C2: a track whose first failing stage in the order PV contributor, ITS and
\* TPC, TOF, DCA, pseudorapidity is k fills the bins 1..k-1 of the selection
\* counter once each, in that order, and no bin from k on; trackPassesCuts
\* returns true exactly for the tracks that fail no stage, which fill 1..5.
C2_TrackCutStages ==
  frame.passed =>
    /\ \A i \in DOMAIN tracks :
         LET k == FirstFailingStage(tracks[i])
         IN /\ frame.trackLog[i].bins = [j \in 1..(k - 1) |-> j]
            /\ frame.trackLog[i].ok <=> k = 6
    /\ \A b \in 1..5 :
         CounterFills(b) =
           Cardinality({i \in DOMAIN tracks : FirstFailingStage(tracks[i]) > b})

\* with the TOF required, a track without TOF and outside the DCA cut stopped
\* at the TOF stage, next to a track that passed every stage
C2_Witness ==
  /\ frame.passed /\ requireTof
  /\ \E i \in DOMAIN tracks :
       /\ ~tracks[i].hasTOF /\ Abs(tracks[i].dcaXY) > DcaXYMaxCut(tracks[i])
       /\ frame.trackLog[i].bins = <<1, 2>> /\ ~frame.trackLog[i].ok
  /\ \E j \in DOMAIN tracks : frame.trackLog[j].ok /\ Len(frame.trackLog[j].bins) = 5

---------------------------------------------------------------------------
(* Properties of the PID cut, SpecPid *)

NSigmaOf(trks, i) == trks[i].tpcNSigmaPi

CutSquared == tracksTpcNSigmaPiCut * tracksTpcNSigmaPiCut

\* C3: tracksPassPiPID accepts the selected tracks if and only if the sum of
\* their squared tpcNSigmaPi is strictly below the square of
\* tracksTpcNSigmaPiCut; for two tracks, if and only if a^2 + b^2 < cut^2.
C3_PidRadius ==
  frame.passed =>
    LET ct == frame.cutTracks
    IN /\ frame.pid <=>
            SeqSum([i \in DOMAIN ct |-> NSigmaOf(ct, i) * NSigmaOf(ct, i)]) < CutSquared
       /\ Len(ct) = 2 =>
            (frame.pid <=>
               NSigmaOf(ct, 1) * NSigmaOf(ct, 1) + NSigmaOf(ct, 2) * NSigmaOf(ct, 2)
                 < CutSquared)
       /\ frame.pid <=> frame.ret # "PID"

\* two tracks away from zero were accepted together
C3_Witness ==
  /\ frame.passed /\ frame.pid
  /\ Len(frame.cutTracks) = 2
  /\ NSigmaOf(frame.cutTracks, 1) = 20 /\ NSigmaOf(frame.cutTracks, 2) = -20

\* C4 as stated: some track set is accepted although one of its tracks has
\* |tpcNSigmaPi| above tracksTpcNSigmaPiCut.
C4_AcceptedBeyondCut ==
  \E trks \in PidTrackSets :
    /\ tracksPassPiPID(trks)
    /\ \E i \in DOMAIN trks : Abs(NSigmaOf(trks, i)) > tracksTpcNSigmaPiCut

\* C4, amended: a selected track with |tpcNSigmaPi| at or above a non-negative
\* tracksTpcNSigmaPiCut makes tracksPassPiPID reject the set, however clean
\* the other tracks are.
C4_BeyondCutRejected ==
  /\ frame.passed /\ tracksTpcNSigmaPiCut >= 0
  /\ \E i \in DOMAIN frame.cutTracks :
       Abs(NSigmaOf(frame.cutTracks, i)) >= tracksTpcNSigmaPiCut
  => ~frame.pid /\ frame.ret = "PID"

\* one track beyond the cut next to a track at zero: rejected
C4_Witness ==
  /\ frame.passed /\ ~frame.pid
  /\ Len(frame.cutTracks) = 2
  /\ Abs(NSigmaOf(frame.cutTracks, 1)) > tracksTpcNSigmaPiCut
  /\ NSigmaOf(frame.cutTracks, 2) = 0

\* C5: whenever tracksPassPiPID accepts, every selected track has
\* |tpcNSigmaPi| below tracksTpcNSigmaPiCut, and some pair of tracks that are
\* both below the cut is rejected.
C5_JointStricter ==
  /\ frame.pid =>
       \A i \in DOMAIN frame.cutTracks :
         Abs(NSigmaOf(frame.cutTracks, i)) < tracksTpcNSigmaPiCut
  /\ \E trks \in PidTrackSets :
       /\ Len(trks) = 2
       /\ \A i \in DOMAIN trks : Abs(NSigmaOf(trks, i)) < tracksTpcNSigmaPiCut
       /\ ~tracksPassPiPID(trks)

\* a pair of tracks both below the cut was rejected
C5_Witness ==
  /\ frame.passed /\ frame.ret = "PID"
  /\ Len(frame.cutTracks) = 2
  /\ \A i \in DOMAIN frame.cutTracks :
       /\ Abs(NSigmaOf(frame.cutTracks, i)) < tracksTpcNSigmaPiCut
       /\ NSigmaOf(frame.cutTracks, i) # 0

---------------------------------------------------------------------------
(* Properties of the ZDC event tagging, SpecZdc *)

\* the ZDC readings of the collision: energy and time on the A and C sides
ZdcReading ==
  << collision.energyCommonZNA, collision.timeZNA,
     collision.energyCommonZNC, collision.timeZNC >>

\* the flags that are true after the tagging
TagsSet ==
  {t \in {"0n0n", "Xn0n", "0nXn", "XnXn"} :
     \/ t = "0n0n" /\ frame.OnOn
     \/ t = "Xn0n" /\ frame.XnOn
     \/ t = "0nXn" /\ frame.OnXn
     \/ t = "XnXn" /\ frame.XnXn}

\* C6: with E = ZNcommonEnergyCut and W = ZNtimeCut, 0n0n is set iff both
\* energies are below E; XnXn iff both energies are above E with both |time|
\* below W; Xn0n iff energy A is above E with |time A| below W and energy C is
\* below E; 0nXn iff energy A is below E and energy C is above E with |time C|
\* below W.  With E = 0 and W = 2 ns, (-1, 0, -1, 0) is tagged 0n0n,
\* (5, 0.5 ns, -1, 0) is tagged Xn0n and (5, 5 ns, -1, 0) gets no tag.
C6_TaggingRules ==
  frame.passed =>
    LET eA == collision.energyCommonZNA
        tA == collision.timeZNA
        eC == collision.energyCommonZNC
        tC == collision.timeZNC
        E  == ZNcommonEnergyCut
        W  == ZNtimeCut
    IN /\ frame.OnOn <=> (eA < E /\ eC < E)
       /\ frame.XnXn <=> (eA > E /\ Abs(tA) < W /\ eC > E /\ Abs(tC) < W)
       /\ frame.XnOn <=> (eA > E /\ Abs(tA) < W /\ eC < E)
       /\ frame.OnXn <=> (eA < E /\ eC > E /\ Abs(tC) < W)
       /\ E = 0 /\ W = 20 =>
            /\ ZdcReading = <<-1, 0, -1, 0>> => TagsSet = {"0n0n"}
            /\ ZdcReading = <<5, 5, -1, 0>> => TagsSet = {"Xn0n"}
            /\ ZdcReading = <<5, 50, -1, 0>> => TagsSet = {}

\* the second example of C6 was processed and tagged Xn0n
C6_Witness ==
  /\ frame.passed
  /\ ZNcommonEnergyCut = 0 /\ ZNtimeCut = 20
  /\ ZdcReading = <<5, 5, -1, 0>>
  /\ frame.XnOn

\* C7: whatever ZNcommonEnergyCut and ZNtimeCut are, at most one of the
\* flags OnOn, XnOn, OnXn, XnXn is true after the tagging.
C7_TagsExclusive == Cardinality(TagsSet) <= 1

\* both sides above the energy cut inside the time window: XnXn and only XnXn
C7_Witness ==
  /\ frame.passed
  /\ collision.energyCommonZNA > ZNcommonEnergyCut
  /\ collision.energyCommonZNC > ZNcommonEnergyCut
  /\ TagsSet = {"XnXn"}

\* a side that lets no tag apply: above the energy cut outside the time
\* window, or exactly on the energy cut
SideInGap(energy, time) ==
  \/ energy > ZNcommonEnergyCut /\ Abs(time) >= ZNtimeCut
  \/ energy = ZNcommonEnergyCut

\* C8: a collision gets none of the four tags if and only if, on at least one
\* side, the common energy is above ZNcommonEnergyCut with |time| at or above
\* ZNtimeCut, or the common energy equals ZNcommonEnergyCut.
C8_UntaggedGap ==
  frame.passed =>
    (TagsSet = {} <=>
       \/ SideInGap(collision.energyCommonZNA, collision.timeZNA)
       \/ SideInGap(collision.energyCommonZNC, collision.timeZNC))

\* the C side alone is above the energy cut and outside the time window, the
\* A side is below the cut: no tag
C8_Witness ==
  /\ frame.passed
  /\ collision.energyCommonZNA < ZNcommonEnergyCut
  /\ collision.energyCommonZNC > ZNcommonEnergyCut
  /\ Abs(collision.timeZNC) >= ZNtimeCut
  /\ TagsSet = {}

---------------------------------------------------------------------------
(* Properties of the tagged histograms, Spec *)

\* the charge class of a pair of selected tracks
ClassOf(totalCharge) ==
  CASE totalCharge = 0  -> "unlike-sign"
    [] totalCharge = 2  -> "like-sign/positive"
    [] totalCharge = -2 -> "like-sign/negative"

\* the fills the call made in the directories under system/2pi/cut
CutDirFills ==
  {i \in DOMAIN frame.fills :
     Len(frame.fills[i].h) = 4 /\ frame.fills[i].h[1] = "system/2pi/cut"}

\* the tagged directories in which the call filled a histogram
TaggedDirsFilled ==
  {frame.fills[i].h[2] : i \in {j \in CutDirFills : frame.fills[j].h[2] # "no-selection"}}

\* the first true flag in the order 0n0n, Xn0n, 0nXn, XnXn, as a set
FirstTag ==
  IF frame.OnOn THEN {"0n0n"}
  ELSE IF frame.XnOn THEN {"Xn0n"}
  ELSE IF frame.OnXn THEN {"0nXn"}
  ELSE IF frame.XnXn THEN {"XnXn"}
  ELSE {}

\* every histogram of directory sel of charge class cls was filled once
FilledOnce(sel, cls) ==
  \A n \in DOMAIN SystemCutHists :
    Cardinality({i \in DOMAIN frame.fills :
                   frame.fills[i].h = <<"system/2pi/cut", sel, cls, SystemCutHists[n]>>}) = 1

\* a pair of selected tracks passed the PID and the system cuts
PairPassed == frame.systemPass /\ frame.nTracks = 2 /\ frame.ret = "end"

\* C9: for a two-track event that passes the system cuts, the tagged
\* directories filled are at most one, the one of the first true flag in the
\* order 0n0n, Xn0n, 0nXn, XnXn, in the charge class of the pair, whichever of
\* the three charge classes that is.
C9_FirstTagWins ==
  PairPassed /\ frame.totalCharge \in {0, 2, -2} =>
    /\ Cardinality(TaggedDirsFilled) <= 1
    /\ TaggedDirsFilled = FirstTag
    /\ \A i \in CutDirFills : frame.fills[i].h[3] = ClassOf(frame.totalCharge)
    /\ \A sel \in FirstTag : FilledOnce(sel, ClassOf(frame.totalCharge))

\* a like-sign negative pair of a 0nXn collision filled the 0nXn directory
C9_Witness ==
  /\ PairPassed /\ frame.totalCharge = -2
  /\ frame.OnXn
  /\ registry[<<<<"system/2pi/cut", "0nXn", "like-sign/negative", "hM">>, 0>>] >= 1

\* the sign directory under pions of a charge class
SignOf(totalCharge) == IF totalCharge = 0 THEN "unlike-sign" ELSE "like-sign"

\* C10: an untagged two-track event that passes the PID and the system cuts
\* fills no histogram of the directories 0n0n, Xn0n, 0nXn, XnXn, fills the
\* no-selection directory under system/2pi/cut and the selected directory
\* under pions of its charge class, and fills no histogram that is not booked.
C10_UntaggedNoBucket ==
  PairPassed /\ frame.totalCharge \in {0, 2, -2} /\ TagsSet = {} =>
    /\ TaggedDirsFilled = {}
    /\ FilledOnce("no-selection", ClassOf(frame.totalCharge))
    /\ \A h \in {"hPt", "hEta", "hPhi"} :
         Cardinality({i \in DOMAIN frame.fills :
                        frame.fills[i].h = <<"pions", "selected", SignOf(frame.totalCharge), h>>}) = 1
    /\ \A i \in DOMAIN frame.fills : frame.fills[i].h \in Histograms

\* an untagged like-sign negative pair reached the no-selection histograms
C10_Witness ==
  /\ PairPassed /\ frame.totalCharge = -2
  /\ TagsSet = {}
  /\ registry[<<<<"system/2pi/cut", "no-selection", "like-sign/negative", "hM">>, 0>>] >= 1
  /\ registry[<<<<"pions", "selected", "like-sign", "hPt">>, 0>>] >= 1

---------------------------------------------------------------------------
(* Properties of the system reconstruction and the decay angles, SpecSystem *)

\* the four-vectors of the selected tracks of the call
SelectedVecs == [i \in DOMAIN frame.cutTracks |-> PionVector(frame.cutTracks[i])]

\* the three-momentum of a track
Momentum(t) == <<t.px, t.py, t.pz>>

\* C11: for every reordering of the four-vectors of the selected tracks,
\* reconstructSystem returns the same px, py, pz and energy, hence the same
\* mass, pT and rapidity.
C11_PermutationInvariant ==
  frame.pid /\ frame.nTracks >= 1 =>
    \A perm \in Permutations(DOMAIN SelectedVecs) :
      LET s == reconstructSystem([i \in DOMAIN SelectedVecs |-> SelectedVecs[perm[i]]])
      IN /\ s.px = frame.system.px /\ s.py = frame.system.py /\ s.pz = frame.system.pz
         /\ Energy(s) = Energy(frame.system)
         /\ Mass(s) = Mass(frame.system)
         /\ Pt(s) = Pt(frame.system)
         /\ Rapidity(s) = Rapidity(frame.system)

\* four selected tracks of four different momenta were summed
C11_Witness ==
  /\ frame.pid /\ frame.nTracks = 4
  /\ Cardinality({Momentum(frame.cutTracks[i]) : i \in DOMAIN frame.cutTracks}) = 4
  /\ Mass(frame.system) > 0

\* the two selected tracks have equal and opposite momenta
BackToBack ==
  /\ frame.pid /\ frame.nTracks = 2
  /\ frame.cutTracks[1].px = -frame.cutTracks[2].px
  /\ frame.cutTracks[1].py = -frame.cutTracks[2].py
  /\ frame.cutTracks[1].pz = -frame.cutTracks[2].pz

\* C12: for two pions of momenta p and -p the system has pT = 0 and a mass of
\* twice the pion energy sqrt(m_pi^2 + |p|^2), which is not 2 * m_pi.
C12_BackToBackMass ==
  BackToBack =>
    /\ Pt(frame.system) = 0
    /\ Mass(frame.system) = 2 * Energy(SelectedVecs[1])
    /\ Energy(SelectedVecs[1]) * Energy(SelectedVecs[1])
         <= MassPionCharged * MassPionCharged + P2(SelectedVecs[1])
    /\ (Energy(SelectedVecs[1]) + 1) * (Energy(SelectedVecs[1]) + 1)
         > MassPionCharged * MassPionCharged + P2(SelectedVecs[1])
    /\ P2(SelectedVecs[1]) > 0 => Mass(frame.system) > 2 * MassPionCharged

\* a back-to-back pair with a longitudinal momentum was summed
C12_Witness ==
  /\ BackToBack
  /\ frame.cutTracks[1].pz # 0
  /\ Mass(frame.system) = 572

\* the two selected tracks have opposite charges
OppositeCharges ==
  /\ frame.pid /\ frame.nTracks = 2
  /\ frame.cutTracks[1].sign * frame.cutTracks[2].sign < 0

\* C13: for two tracks of opposite charges getPhiCharge takes the positive
\* track as pOne whichever position it has in cutTracks, so that the angle is
\* the same with the two tracks swapped.
C13_PhiChargePositiveFirst ==
  OppositeCharges =>
    LET k   == IF frame.cutTracks[1].sign > 0 THEN 1 ELSE 2
        pos == SelectedVecs[k]
        neg == SelectedVecs[3 - k]
    IN /\ frame.phiCharge = deltaPhi(VectorAdd(pos, neg), VectorSub(pos, neg))
       /\ frame.phiCharge =
            getPhiCharge(<<frame.cutTracks[2], frame.cutTracks[1]>>,
                         <<SelectedVecs[2], SelectedVecs[1]>>)

\* the positive track came second and the angle is not the one of the order
\* of the tracks
C13_Witness ==
  /\ OppositeCharges
  /\ frame.cutTracks[2].sign > 0
  /\ frame.phiCharge # getPhiRandom(SelectedVecs, <<0, 1>>)
  /\ frame.phiCharge = getPhiRandom(SelectedVecs, <<1, 0>>)

\* C14: deltaPhi returns a value in the half-open interval (-pi, pi]: after
\* the single wrap the two decay angles of a two-track call are above -pi and
\* at most pi, so that -pi itself is never returned.
C14_DeltaPhiHalfOpen ==
  frame.pid /\ frame.nTracks = 2 =>
    /\ -PI < frame.phiRandom /\ frame.phiRandom <= PI
    /\ -PI < frame.phiCharge /\ frame.phiCharge <= PI

\* a pair passing every cut whose sum points along +x and whose difference
\* points along -x: deltaPhi returned -pi, which went into the histograms
C14_Witness ==
  /\ frame.pid /\ frame.nTracks = 2 /\ frame.systemPass
  /\ frame.phiCharge = -PI
  /\ Pt(frame.system) > 0
  /\ \E i \in DOMAIN frame.fills :
       /\ frame.fills[i].h[Len(frame.fills[i].h)] = "hPhiCharge"
       /\ frame.fills[i].val = <<-PI>>

\* the histograms whose values depend on the shuffle of getPhiRandom
RandomLeaves == {"hPhiRandom", "hPhiRandomVsM", "hPyVsPxRandom"}

\* the last component of a histogram name
Leaf(h) == h[Len(h)]

\* the locals of a second run of the call on the same collision and tracks,
\* with the shuffle giving indices
Rerun(indices) == ProcessRecoFrame(collision, tracks, indices)

\* C15: the shuffle of getPhiRandom is the only nondeterminism: whatever the
\* shuffle gives, a second run on the same input fills the same histograms in
\* the same order with the same weights, with the same values except in
\* hPhiRandom, hPhiRandomVsM and hPyVsPxRandom, and takes the same cut
\* decisions and the same phiCharge.
C15_ShuffleOnlyNondeterminism ==
  frame.ret # "none" =>
    \A indices \in ShuffleOutcomes :
      LET g == Rerun(indices)
      IN /\ Len(g.fills) = Len(frame.fills)
         /\ \A i \in DOMAIN frame.fills :
              /\ g.fills[i].h = frame.fills[i].h
              /\ g.fills[i].bin = frame.fills[i].bin
              /\ g.fills[i].w = frame.fills[i].w
              /\ Leaf(frame.fills[i].h) \notin RandomLeaves
                   => g.fills[i].val = frame.fills[i].val
         /\ g.phiCharge = frame.phiCharge
         /\ g.ret = frame.ret
         /\ g.passed = frame.passed
         /\ <<g.OnOn, g.XnXn, g.XnOn, g.OnXn>> = <<frame.OnOn, frame.XnXn, frame.XnOn, frame.OnXn>>
         /\ g.trackLog = frame.trackLog
         /\ g.cutTracks = frame.cutTracks
         /\ g.pid = frame.pid
         /\ g.system = frame.system
         /\ g.totalCharge = frame.totalCharge
         /\ g.systemPass = frame.systemPass

\* a pair passing every cut for which the other outcome of the shuffle gives
\* another phiRandom, filled into hPhiRandom
C15_Witness ==
  /\ frame.nTracks = 2 /\ frame.systemPass
  /\ \E indices \in ShuffleOutcomes :
       /\ indices # frame.indices
       /\ Rerun(indices).phiRandom # frame.phiRandom
       /\ \E i \in DOMAIN frame.fills :
            /\ Leaf(frame.fills[i].h) = "hPhiRandom"
            /\ Rerun(indices).fills[i].val # frame.fills[i].val

---------------------------------------------------------------------------
(* Properties of sequences of events, SpecSequence *)

\* the directory of a registry bin
Directory(k) == k[1][1]

\* the step is a call of processReco
IsCall == nEvents' = nEvents + 1

\* the call of the step does to the task what it does to a task that has seen
\* no event: its locals are an outcome of the call on its own arguments, and
\* every bin grows by the entries of its own fills
FreshOutcome ==
  /\ frame' \in ProcessRecoOutcomes(collision', tracks')
  /\ \A k \in DOMAIN registry : registry'[k] = registry[k] + Added(frame'.fills, k)

\* C16: when the collision fails the collision cuts the event is skipped: no
\* track is evaluated, no bin of the selection counter (bin 0 included) and no
\* track, pion or system histogram changes; the event after a skipped one is
\* processed as any other.
C16_SkippedEvent ==
  [][ /\ IsCall /\ ~collisionPassesCuts(collision')
        => /\ frame'.ret = "collision cuts"
           /\ frame'.trackLog = <<>> /\ frame'.cutTracks = <<>>
           /\ \A i \in DOMAIN frame'.fills : frame'.fills[i].h[1] = "QC/collisions"
           /\ \A k \in DOMAIN registry :
                Directory(k) # "QC/collisions" => registry'[k] = registry[k]
      /\ IsCall /\ frame.ret = "collision cuts" => FreshOutcome ]_vars

\* a skipped event, then an event that went through every cut: two
\* collisions were seen, the track histograms hold the second event only
C16_Witness ==
  /\ nEvents = 2
  /\ frame.ret = "end" /\ frame.systemPass
  /\ registry[<<<<"QC/collisions", "hPosZ">>, 0>>] = 2
  /\ registry[<<hSelectionCounter, 0>>] = 2
  /\ \A b \in 0..20 :
       registry[<<<<"QC/tracks/cut", "hRemainingTracks">>, b>>] = IF b = 2 THEN 1 ELSE 0

\* C20: the histograms are the only state kept from one event to the next and
\* they only grow: no bin ever decreases, the configuration never changes, and
\* what a call decides and fills does not depend on the events before it.
C20_AppendOnly ==
  [][ IsCall =>
        /\ \A k \in DOMAIN registry : registry'[k] >= registry[k]
        /\ UNCHANGED config
        /\ FreshOutcome ]_vars

\* two events went through every cut: a bin of the second holds both
C20_Witness ==
  /\ nEvents = 2
  /\ frame.ret = "end"
  /\ registry[<<<<"QC/tracks/cut", "hRemainingTracks">>, 2>>] = 2
  /\ \E k \in DOMAIN registry : Directory(k) = "system/2pi/cut" /\ registry[k] = 2

---------------------------------------------------------------------------
(* Properties of the gates before the pion and system histograms *)

\* the directories of the pion and system histograms
PhysicsDirs == {"pions", "system/2pi/raw", "system/2pi/cut", "system/4pi", "system/6pi"}

\* the fills the call made into pion and system histograms
PhysicsFills == {i \in DOMAIN frame.fills : frame.fills[i].h[1] \in PhysicsDirs}

\* the sum of the squared tpcNSigmaPi of the selected tracks of the call
NSigmaSquares ==
  SeqSum([i \in DOMAIN frame.cutTracks |->
            NSigmaOf(frame.cutTracks, i) * NSigmaOf(frame.cutTracks, i)])

\* C17: when the PID rejects the selected tracks the call fills no histogram
\* under pions or system and does not increment bin 6 of the selection
\* counter; conversely a fill under pions or system only happens in a call
\* whose collision passed the collision cuts and whose selected tracks passed
\* the PID.
C17_PidGate ==
  /\ frame.passed /\ NSigmaSquares >= CutSquared =>
       /\ frame.ret = "PID"
       /\ PhysicsFills = {}
       /\ \A i \in DOMAIN frame.fills :
            ~(frame.fills[i].h = hSelectionCounter /\ frame.fills[i].bin = 6)
  /\ PhysicsFills # {} =>
       /\ collisionPassesCuts(collision)
       /\ NSigmaSquares < CutSquared

\* two tracks, each inside the cut, were rejected together
C17_Witness ==
  /\ frame.ret = "PID"
  /\ Len(frame.cutTracks) = 2
  /\ \A i \in {1, 2} : Abs(NSigmaOf(frame.cutTracks, i)) < tracksTpcNSigmaPiCut
  /\ PhysicsFills = {}
  /\ registry[<<hSelectionCounter, 6>>] = 0
  /\ registry[<<hSelectionCounter, 0>>] = 2

\* the fills the call made into the histograms of directory dir
FillsUnder(dir) == {i \in DOMAIN frame.fills : frame.fills[i].h[1] = dir}

\* the sum of the signs of the selected tracks of the call
NetCharge == SeqSum([i \in DOMAIN frame.cutTracks |-> frame.cutTracks[i].sign])

\* every histogram of a multi-pion directory was filled once
MultiPionFilled(dir) ==
  \A h \in {"hM", "hPt", "hPtVsM", "hY"} :
    Cardinality({i \in DOMAIN frame.fills : frame.fills[i].h = <<dir, h>>}) = 1

\* C18: pion and system histograms are filled only when 2, 4 or 6 tracks are
\* selected: the two-pion and pion directories for two tracks, system/4pi
\* when exactly four tracks are selected and their charges add up to zero,
\* system/6pi when exactly six are selected and their charges add up to zero.
C18_Multiplicities ==
  /\ PhysicsFills # {} => Len(frame.cutTracks) \in {2, 4, 6}
  /\ \A dir \in {"pions", "system/2pi/raw", "system/2pi/cut"} :
       FillsUnder(dir) # {} => Len(frame.cutTracks) = 2
  /\ FillsUnder("system/4pi") # {} => Len(frame.cutTracks) = 4 /\ NetCharge = 0
  /\ FillsUnder("system/6pi") # {} => Len(frame.cutTracks) = 6 /\ NetCharge = 0
  /\ frame.pid /\ Len(frame.cutTracks) = 4 /\ NetCharge = 0 => MultiPionFilled("system/4pi")
  /\ frame.pid /\ Len(frame.cutTracks) = 6 /\ NetCharge = 0 => MultiPionFilled("system/6pi")

\* five tracks came in, four neutral ones were selected and filled system/4pi
C18_Witness ==
  /\ Len(tracks) = 5 /\ Len(frame.cutTracks) = 4
  /\ frame.pid /\ NetCharge = 0
  /\ MultiPionFilled("system/4pi")
  /\ registry[<<<<"system/4pi", "hM">>, 0>>] = 1

\* four selected tracks of net charge 2 filled nothing under system
C18_ChargedWitness ==
  /\ frame.pid /\ Len(frame.cutTracks) = 4 /\ NetCharge = 2
  /\ PhysicsFills = {}

\* the charge class in the name of a pion or system histogram
ChargeClassOfFill(h) == IF h[1] = "system/2pi/raw" THEN h[2] ELSE h[3]

\* the tagged directory the ZDC readings of the collision select, as a set
ZdcTag ==
  LET eA == collision.energyCommonZNA
      tA == collision.timeZNA
      eC == collision.energyCommonZNC
      tC == collision.timeZNC
      E  == ZNcommonEnergyCut
      W  == ZNtimeCut
  IN IF eA < E /\ eC < E THEN {"0n0n"}
     ELSE IF eA > E /\ Abs(tA) < W /\ eC < E THEN {"Xn0n"}
     ELSE IF eA < E /\ eC > E /\ Abs(tC) < W THEN {"0nXn"}
     ELSE IF eA > E /\ Abs(tA) < W /\ eC > E /\ Abs(tC) < W THEN {"XnXn"}
     ELSE {}

\* the pair of the example: charges +1 and -1, mass 0.77, pT 0.05, rapidity 0.1
RhoPair == <<Pion(MomRhoPlus, 1, 0), Pion(MomRhoMinus, -1, 0)>>

\* C19: a two-track event that passes the collision, track, PID and system
\* cuts fills the histograms of exactly one charge class, given by the sum of
\* the two signs: unlike-sign for 0, like-sign/positive for +2,
\* like-sign/negative for -2.  The pair of charges +1 and -1 with mass 0.77,
\* pT 0.05 and rapidity 0.1 passes the default cuts and fills the unlike-sign
\* cut histograms and the tagged directory the ZDC readings select.
C19_ChargeClassRouting ==
  /\ PairPassed =>
       LET q == frame.cutTracks[1].sign + frame.cutTracks[2].sign
       IN /\ q \in {0, 2, -2}
          /\ \A i \in PhysicsFills :
               ChargeClassOfFill(frame.fills[i].h) =
                 IF frame.fills[i].h[1] = "pions" THEN SignOf(q) ELSE ClassOf(q)
          /\ FilledOnce("no-selection", ClassOf(q))
          /\ \A h \in {"hM", "hPt", "hPtVsM", "hY"} :
               Cardinality({i \in DOMAIN frame.fills :
                              frame.fills[i].h = <<"system/2pi/raw", ClassOf(q), h>>}) = 1
  /\ frame.passed /\ tracks = RhoPair =>
       /\ PairPassed
       /\ Mass(frame.system) = 770 /\ Pt(frame.system) = 50 /\ Rapidity(frame.system) = 99
       /\ FilledOnce("no-selection", "unlike-sign")
       /\ TaggedDirsFilled = ZdcTag
       /\ \A sel \in ZdcTag : FilledOnce(sel, "unlike-sign")
       /\ \A i \in CutDirFills : frame.fills[i].h[3] = "unlike-sign"

\* the pair of the example in a collision with neutrons on the A side only
\* filled the Xn0n unlike-sign directory with its mass
C19_Witness ==
  /\ tracks = RhoPair /\ PairPassed
  /\ ZdcReading = <<9, 5, -1, 0>>
  /\ \E i \in DOMAIN frame.fills :
       /\ frame.fills[i].h = <<"system/2pi/cut", "Xn0n", "unlike-sign", "hM">>
       /\ frame.fills[i].val = <<770>>
  /\ registry[<<<<"system/2pi/cut", "Xn0n", "unlike-sign", "hM">>, 0>>] = 1

---------------------------------------------------------------------------
(* Properties of the two decay angles of a pair, SpecSystem *)

\* the two selected tracks of a call that got to the decay angles
PairAngles == frame.pid /\ frame.nTracks = 2

\* the angle with the first selected track as pOne, and with the second
CandidateFirst ==
  deltaPhi(VectorAdd(SelectedVecs[1], SelectedVecs[2]),
           VectorSub(SelectedVecs[1], SelectedVecs[2]))
CandidateSecond ==
  deltaPhi(VectorAdd(SelectedVecs[1], SelectedVecs[2]),
           VectorSub(SelectedVecs[2], SelectedVecs[1]))

\* the two selected tracks have the same px and the same py
SameTransverse ==
  /\ frame.cutTracks[1].px = frame.cutTracks[2].px
  /\ frame.cutTracks[1].py = frame.cutTracks[2].py

\* the two candidates differ by pi modulo 2 pi
CandidatesOpposite == (CandidateFirst - CandidateSecond) % TwoPI = PI

\* getPhiRandom and getPhiCharge return one of the two candidates, the one of
\* the shuffled order for getPhiRandom
OneOfTwoCandidates ==
  /\ frame.phiRandom \in {CandidateFirst, CandidateSecond}
  /\ frame.indices = <<0, 1>> => frame.phiRandom = CandidateFirst
  /\ frame.indices = <<1, 0>> => frame.phiRandom = CandidateSecond
  /\ frame.phiCharge \in {CandidateFirst, CandidateSecond}

\* C21 as stated: getPhiRandom returns deltaPhi(p0+p1, p0-p1) or
\* deltaPhi(p0+p1, p1-p0) according to the shuffled order, getPhiCharge
\* returns one of the two, and the two candidates differ by pi modulo 2 pi.
C21_CandidatesAlwaysOpposite ==
  PairAngles => OneOfTwoCandidates /\ CandidatesOpposite

\* C21, amended: getPhiRandom returns deltaPhi(p0+p1, p0-p1) or
\* deltaPhi(p0+p1, p1-p0) according to the shuffled order and getPhiCharge
\* returns one of the two; the two candidates differ by pi modulo 2 pi when
\* the transverse momenta of the two tracks differ, and are equal when the
\* two tracks have the same px and py.
C21_CandidatesOpposite ==
  PairAngles =>
    /\ OneOfTwoCandidates
    /\ ~SameTransverse => CandidatesOpposite
    /\ SameTransverse => CandidateFirst = CandidateSecond

\* the shuffle exchanged two tracks of different transverse momenta: the
\* second candidate was returned, away from phiCharge by pi
C21_Witness ==
  /\ PairAngles /\ ~SameTransverse
  /\ frame.indices = <<1, 0>>
  /\ frame.phiRandom = CandidateSecond
  /\ frame.phiCharge = CandidateFirst
  /\ CandidateFirst # CandidateSecond

---------------------------------------------------------------------------
(* Properties of the selection counter over sequences of events, SpecSequence *)

\* the content of bin b of the selection counter
Counter(b) == registry[<<hSelectionCounter, b>>]

\* the last call filled bin 6 of the selection counter
FilledBinSix ==
  \E i \in DOMAIN frame.fills :
    frame.fills[i].h = hSelectionCounter /\ frame.fills[i].bin = 6

\* C22: bin 6 of the selection counter is filled, with weight 2, only in
\* calls in which exactly two tracks passed trackPassesCuts and the pair
\* passed tracksPassPiPID, so that after any sequence of events the content
\* of bin 6 does not exceed the content of bin 5.
C22_PairCounter ==
  /\ FilledBinSix => frame.pid /\ frame.trackCounter = 2
  /\ Counter(6) <= Counter(5)

\* a collision without tracks passed the PID of its empty track set: bin 6
\* holds two entries, bin 5 none
C22_Witness ==
  /\ nEvents = 1
  /\ frame.passed /\ tracks = <<>> /\ frame.pid
  /\ FilledBinSix
  /\ Counter(6) = 2 /\ Counter(5) = 0

\* the sum of the values filled into hRemainingTracks
RemainingSum ==
  SeqSum([b \in 1..20 |-> b * registry[<<<<"QC/tracks/cut", "hRemainingTracks">>, b>>]])

\* bins 0 to 5 of the selection counter do not increase from one to the next
CounterChain == \A b \in 0..4 : Counter(b) >= Counter(b + 1)

\* C23: after any sequence of events bins 0 to 5 of the selection counter
\* form a non-increasing chain, bin 0 is the number of tracks seen in the
\* events that passed the collision cuts (every such call adds the number of
\* its tracks, every other call nothing), bin 5 is the sum of the values
\* filled into hRemainingTracks, and bin 3 equals bin 2 when requireTof is
\* false.
C23_CounterChain ==
  [][ IsCall =>
        /\ CounterChain'
        /\ Counter(0)' - Counter(0) =
             IF collisionPassesCuts(collision') THEN Len(tracks') ELSE 0
        /\ Counter(5)' = RemainingSum'
        /\ ~requireTof => Counter(3)' = Counter(2)' ]_vars

\* with the TOF required, after two events: a track stopped at the TOF stage,
\* a track stopped at the DCA stage and tracks that passed every stage
C23_Witness ==
  /\ nEvents = 2 /\ requireTof
  /\ Counter(2) > Counter(3) /\ Counter(3) > Counter(4)
  /\ Counter(5) >= 2
  /\ Counter(5) = RemainingSum
  /\ CounterChain

\* with the TOF not required, a track without TOF stopped at the DCA stage
C23_NoTofWitness ==
  /\ ~requireTof /\ frame.passed
  /\ \E i \in DOMAIN tracks : ~tracks[i].hasTOF
  /\ Counter(3) = Counter(2) /\ Counter(3) > Counter(4)

\* both selected tracks of the pair have the same charge
LikeSignPair == PairAngles /\ frame.totalCharge \in {2, -2}

\* getPhiCharge of the same two tracks given in the other order
SwappedPhiCharge ==
  getPhiCharge(<<frame.cutTracks[2], frame.cutTracks[1]>>,
               <<SelectedVecs[2], SelectedVecs[1]>>)

\* the track getPhiCharge takes as pOne: the first of two positive tracks,
\* the second of two negative ones
RoleByOrder ==
  /\ frame.totalCharge = 2 => frame.phiCharge = CandidateFirst
  /\ frame.totalCharge = -2 => frame.phiCharge = CandidateSecond

\* C25 as stated: for a like-sign pair getPhiCharge takes the first track as
\* pOne when both are positive and the second when both are negative, and
\* giving the two tracks in the other order changes the angle by pi modulo
\* 2 pi.
C25_SwapAlwaysOpposite ==
  LikeSignPair =>
    /\ RoleByOrder
    /\ (SwappedPhiCharge - frame.phiCharge) % TwoPI = PI

\* C25, amended: for a like-sign pair getPhiCharge takes the first track as
\* pOne when both are positive and the second when both are negative; giving
\* the two tracks in the other order changes the angle by pi modulo 2 pi when
\* their transverse momenta differ, and leaves it unchanged when the two
\* tracks have the same px and py.
C25_SwapOpposite ==
  LikeSignPair =>
    /\ RoleByOrder
    /\ ~SameTransverse => (SwappedPhiCharge - frame.phiCharge) % TwoPI = PI
    /\ SameTransverse => SwappedPhiCharge = frame.phiCharge

\* two negative tracks of different transverse momenta: the second one was
\* pOne, and the other order gives the opposite angle
C25_Witness ==
  /\ LikeSignPair /\ frame.totalCharge = -2 /\ ~SameTransverse
  /\ frame.phiCharge = CandidateSecond
  /\ frame.phiCharge # CandidateFirst
  /\ SwappedPhiCharge = CandidateFirst

\* two like-sign tracks of the same px and py
C25_SameTransverseWitness == LikeSignPair /\ SameTransverse

---------------------------------------------------------------------------
(* The system cuts on pairs on and next to the cut values, SpecSystemCuts  *)

\* two selected tracks passed the PID
PairAfterPid == frame.passed /\ frame.pid /\ frame.nTracks = 2

\* the positions in frame.fills of the fills of histogram directory dir
FillsIn(dir) ==
  {i \in DOMAIN frame.fills :
     /\ Len(frame.fills[i].h) = Len(dir) + 1
     /\ \A k \in DOMAIN dir : frame.fills[i].h[k] = dir[k]}

\* the leaves of the histograms the call filled in directory dir
LeavesIn(dir) == {frame.fills[i].h[Len(dir) + 1] : i \in FillsIn(dir)}

\* the mass within [systemMassMinCut, systemMassMaxCut], the pT at most
\* systemPtCut and |rapidity| at most systemYCut, the cut values included
WithinSystemCuts(v) ==
  /\ systemMassMinCut * systemMassMinCut <= v.M2
  /\ v.M2 <= systemMassMaxCut * systemMassMaxCut
  /\ Pt2(v) <= systemPtCut * systemPtCut
  /\ Abs(v.pz) * 100000 <= systemYCut * Energy(v)

\* the system lies on the value of one of the four cuts
OnSystemCut(v) ==
  \/ v.M2 = systemMassMinCut * systemMassMinCut
  \/ v.M2 = systemMassMaxCut * systemMassMaxCut
  \/ Pt2(v) = systemPtCut * systemPtCut
  \/ Abs(v.pz) * 100000 = systemYCut * Energy(v)

\* C24: in a two-track event that passed the PID the raw system histograms
\* and the pions/no-selection histograms of its charge class are filled
\* whatever the system cuts decide, and before them; the histograms of
\* system/2pi/cut/no-selection and pions/selected of the class are filled if
\* and only if the mass is within [systemMassMinCut, systemMassMaxCut], the pT
\* is at most systemPtCut and |rapidity| is at most systemYCut, a value equal
\* to any of the four cut values being accepted.
C24_SystemCutGate ==
  PairAfterPid =>
    LET cls == ClassOf(frame.totalCharge)
        sgn == SignOf(frame.totalCharge)
        raw == FillsIn(<<"system/2pi/raw", cls>>) \cup FillsIn(<<"pions", "no-selection", sgn>>)
        cut == FillsIn(<<"system/2pi/cut", "no-selection", cls>>)
                 \cup FillsIn(<<"pions", "selected", sgn>>)
    IN /\ frame.totalCharge \in {0, 2, -2}
       /\ LeavesIn(<<"system/2pi/raw", cls>>) = {"hM", "hPt", "hPtVsM", "hY"}
       /\ LeavesIn(<<"pions", "no-selection", sgn>>) = {"hPt", "hEta", "hPhi"}
       /\ \A i \in raw : \A j \in cut : i < j
       /\ IF WithinSystemCuts(frame.system)
            THEN /\ LeavesIn(<<"system/2pi/cut", "no-selection", cls>>) = Range(SystemCutHists)
                 /\ LeavesIn(<<"pions", "selected", sgn>>) = {"hPt", "hEta", "hPhi"}
            ELSE /\ cut = {}
                 /\ \A i \in DOMAIN frame.fills : frame.fills[i].h[1] # "system/2pi/cut"

\* a pair whose rapidity equals the rapidity cut was accepted and filled the
\* cut histograms
C24_Witness ==
  /\ PairAfterPid
  /\ Abs(frame.system.pz) * 100000 = systemYCut * Energy(frame.system)
  /\ frame.system.pz # 0
  /\ FillsIn(<<"system/2pi/cut", "no-selection", ClassOf(frame.totalCharge)>>) # {}

\* pairs on the mass cuts and on the pT cut were accepted as well
C24_MassMinWitness ==
  PairAfterPid /\ frame.system.M2 = systemMassMinCut * systemMassMinCut /\ frame.systemPass
C24_MassMaxWitness ==
  PairAfterPid /\ frame.system.M2 = systemMassMaxCut * systemMassMaxCut /\ frame.systemPass
C24_PtWitness ==
  PairAfterPid /\ Pt2(frame.system) = systemPtCut * systemPtCut /\ frame.systemPass

\* a pair outside the system cuts filled the raw histograms only
C24_RejectedWitness ==
  /\ PairAfterPid /\ ~WithinSystemCuts(frame.system)
  /\ FillsIn(<<"system/2pi/raw", ClassOf(frame.totalCharge)>>) # {}

---------------------------------------------------------------------------
(* The reach of the ZDC readings, Spec *)

\* the collision of the call with the ZDC readings z in place of its own
WithReading(z) ==
  [collision EXCEPT !.energyCommonZNA = z[1], !.timeZNA = z[2],
                    !.energyCommonZNC = z[3], !.timeZNC = z[4]]

\* readings of a 0n0n, an Xn0n, a 0nXn and an XnXn collision and of one
\* without a tag
OtherReadings ==
  { <<-1, 0, -1, 0>>, <<9, 5, -1, 0>>, <<-1, 0, 9, -5>>, <<9, 5, 9, 5>>, <<9, 50, -1, 0>> }

\* the histograms under QC/tracks, pions, system/2pi/raw,
\* system/2pi/cut/no-selection, system/4pi and system/6pi, the selection
\* counter among them
OutsideZdc(f) ==
  \/ f.h[1] \in {"QC/tracks", "QC/tracks/raw", "QC/tracks/cut", "pions",
                 "system/2pi/raw", "system/4pi", "system/6pi"}
  \/ f.h[1] = "system/2pi/cut" /\ f.h[2] = "no-selection"

\* the histograms filled with the angle of the shuffled order
NotOfShuffle(f) ==
  OutsideZdc(f) /\ f.h[Len(f.h)] \notin {"hPhiRandom", "hPhiRandomVsM", "hPyVsPxRandom"}

\* C26 as stated: a call on an event that differs from the one processed in
\* the ZDC energies and times only makes the same fills, with the same values
\* and weights, of the selection counter and of every histogram under
\* QC/tracks, pions, system/2pi/raw, system/2pi/cut/no-selection, system/4pi
\* and system/6pi.
C26_ZdcOnlyTags ==
  nEvents > 0 =>
    \A z \in OtherReadings : \A g \in ProcessRecoOutcomes(WithReading(z), tracks) :
      SelectSeq(g.fills, OutsideZdc) = SelectSeq(frame.fills, OutsideZdc)

\* C26, amended: a call on an event that differs in the ZDC energies and
\* times only makes the same fills of these histograms when the shuffle of
\* getPhiRandom comes out the same in both calls; when it comes out
\* differently the fills still agree on every histogram but hPhiRandom,
\* hPhiRandomVsM and hPyVsPxRandom of system/2pi/cut/no-selection.
C26_ZdcOnlyTagsGivenShuffle ==
  nEvents > 0 =>
    \A z \in OtherReadings : \A g \in ProcessRecoOutcomes(WithReading(z), tracks) :
      /\ g.passed = frame.passed /\ g.ret = frame.ret
      /\ SelectSeq(g.fills, NotOfShuffle) = SelectSeq(frame.fills, NotOfShuffle)
      /\ g.indices = frame.indices =>
           SelectSeq(g.fills, OutsideZdc) = SelectSeq(frame.fills, OutsideZdc)

\* a pair of an Xn0n collision filled the Xn0n directory; with the readings
\* of a 0nXn collision and the same shuffle the call fills the 0nXn directory
\* instead and the same no-selection histograms
C26_Witness ==
  /\ PairPassed /\ TaggedDirsFilled = {"Xn0n"}
  /\ \E g \in ProcessRecoOutcomes(WithReading(<<-1, 0, 9, -5>>), tracks) :
       /\ g.indices = frame.indices
       /\ g.OnXn /\ g.fills # frame.fills
       /\ SelectSeq(g.fills, OutsideZdc) = SelectSeq(frame.fills, OutsideZdc)
       /\ SelectSeq(frame.fills, OutsideZdc) # <<>>

---------------------------------------------------------------------------
(* The order of the calls, SpecSequence *)

\* the registry without the entries of the fills
RemoveFills(reg, fills) ==
  [k \in DOMAIN reg |-> reg[k] - Added(fills, k)]

\* the shuffle outcome of a call, <<0, 1>> when getPhiRandom was not reached
ShuffleOf(f) == IF f.indices = <<>> THEN <<0, 1>> ELSE f.indices

\* C27: with the shuffle outcome of each event fixed, the fills of a call are
\* those of its event alone, whatever was processed before, and the registry
\* after two successive calls is the one the same two calls leave when made in
\* the other order; exchanging successive calls reaches every order, so the
\* final contents do not depend on the order of the calls.
C27_CallsCommute ==
  [][ IsCall =>
        /\ frame' = ProcessRecoFrame(collision', tracks', ShuffleOf(frame'))
        /\ nEvents >= 1 =>
             registry' = ApplyFills(ApplyFills(RemoveFills(registry, frame.fills),
                                               frame'.fills),
                                    frame.fills) ]_vars

\* two calls on events with different numbers of tracks, both past the
\* collision cuts, and the second one past the system cuts
C27_Witness ==
  /\ nEvents = 2 /\ PairPassed
  /\ Counter(0) > Len(tracks)
  /\ Counter(0) # 2 * Len(tracks)
  /\ Counter(6) = 4

---------------------------------------------------------------------------
(* Properties of the event selection of myAnalysis, SpecV0 *)

\* the content of the bin of hNEvents labelled 'all' (0), 'sel8' (1), 'TVX'
\* (2), 'zvertex' (3), 'TFBorder' (4), 'ITSROFBorder' (5),
\* 'isTOFVertexMatched' (6), 'isGoodZvtxFT0vsPV' (7), 'Applied selected' (8)
NEvents(b) == myAnalysis.JEhistos[<<"hNEvents", b>>]

\* the toggle of the stage that fills bin b
StageToggle(b) ==
  CASE b = 1 -> myAnalysis.cfg.sel8
    [] b = 2 -> myAnalysis.cfg.isTriggerTVX
    [] b = 3 -> myAnalysis.cfg.iscutzvertex
    [] b = 4 -> myAnalysis.cfg.isNoTimeFrameBorder
    [] b = 5 -> myAnalysis.cfg.isNoITSROFrameBorder
    [] b = 6 -> myAnalysis.cfg.isVertexTOFmatched
    [] b = 7 -> myAnalysis.cfg.isGoodZvtxFT0vsPV

\* the bins do not increase from 'all' to 'Applied selected', the last two
\* are equal, and the bin of a stage that is switched off equals the one
\* before it
EventCounterChain ==
  /\ NEvents(0) = myAnalysis.nEventsV0
  /\ \A b \in 1..8 : NEvents(b) <= NEvents(b - 1)
  /\ NEvents(8) = NEvents(7)
  /\ \A b \in 1..7 : ~StageToggle(b) => NEvents(b) = NEvents(b - 1)

IsV0Call == myAnalysis'.nEventsV0 = myAnalysis.nEventsV0 + 1

\* C28: after any sequence of processV0 calls the bins of hNEvents are
\* non-increasing in the order 'all', 'sel8', 'TVX', 'zvertex', 'TFBorder',
\* 'ITSROFBorder', 'isTOFVertexMatched', 'isGoodZvtxFT0vsPV', 'Applied
\* selected'; the last two are equal and grow by one exactly in the calls in
\* which AcceptEvent returns true; the bin of a stage whose toggle is off
\* equals the preceding bin.
C28_EventCounterChain ==
  [][ IsV0Call =>
        /\ EventCounterChain'
        /\ call'.accept = AcceptEvent(call'.collision).ret
        /\ NEvents(8)' - NEvents(8) = IF call'.accept THEN 1 ELSE 0
        /\ NEvents(7)' - NEvents(7) = IF call'.accept THEN 1 ELSE 0 ]_vars

\* two calls, one accepted and one rejected at the TOF vertex matching, with
\* the z-vertex cut switched off
C28_Witness ==
  /\ myAnalysis.nEventsV0 = 2
  /\ ~myAnalysis.cfg.iscutzvertex /\ myAnalysis.cfg.isVertexTOFmatched
  /\ NEvents(0) = 2 /\ NEvents(5) = 2 /\ NEvents(6) = 1 /\ NEvents(8) = 1

---------------------------------------------------------------------------
(* Properties of the track loop of processJetTracks, SpecJetTracks *)

\* the selected tracks of the call within both kinematic limits
TracksWithinLimits ==
  {i \in DOMAIN call.tracks :
     /\ call.tracks[i].selectTrack
     /\ call.tracks[i].pt >= myAnalysis.cfg.cfgtrkMinPt
     /\ Abs(call.tracks[i].eta) <= myAnalysis.cfg.cfgtrkMaxEta}

\* the number of fills of histogram h in the call
CallFills(h) == Cardinality({i \in DOMAIN call.fills : call.fills[i].h = h})

\* C29: processJetTracks fills ptHistogram, etaHistogram and phiHistogram
\* only for the selected tracks with pt >= cfgtrkMinPt and |eta| <=
\* cfgtrkMaxEta: a call fills each of them at most once per such track, and
\* a track outside either limit is skipped.
C29_KinematicLimits ==
  call.handler = "processJetTracks" =>
    \A h \in {"ptHistogram", "etaHistogram", "phiHistogram"} :
      CallFills(h) <= Cardinality(TracksWithinLimits)

\* a call on one selected track below cfgtrkMinPt and inside cfgtrkMaxEta
\* filled ptHistogram
C29_Witness ==
  /\ call.handler = "processJetTracks" /\ Len(call.tracks) = 1
  /\ call.tracks[1].selectTrack
  /\ call.tracks[1].pt < myAnalysis.cfg.cfgtrkMinPt
  /\ Abs(call.tracks[1].eta) <= myAnalysis.cfg.cfgtrkMaxEta
  /\ CallFills("ptHistogram") = 1

---------------------------------------------------------------------------
(* Properties of the V0 selections, SpecLambdaSelection *)

\* C30: passedLambdaSelection and passedAntiLambdaSelection return false
\* whenever |v0.dcanegtopv| < dcanegtopv and whenever |v0.dcapostopv| <
\* dcapostopv, each daughter being compared with its own threshold.
C30_DaughterDca ==
  call.handler = "selections" =>
    LET v0 == call.V0s[1]
    IN /\ Abs(v0.dcanegtopv) < myAnalysis.cfg.dcanegtopv =>
            ~call.lambda[1] /\ ~call.antiLambda[1]
       /\ Abs(v0.dcapostopv) < myAnalysis.cfg.dcapostopv =>
            ~call.lambda[1] /\ ~call.antiLambda[1]

\* a V0 whose negative daughter is closer to the primary vertex than
\* dcanegtopv passed both selections
C30_Witness ==
  /\ call.handler = "selections"
  /\ Abs(call.V0s[1].dcanegtopv) < myAnalysis.cfg.dcanegtopv
  /\ call.lambda[1] /\ call.antiLambda[1]

=============================================================================
